---- MODULE Spec2Model ----
(***************************************************************************)
(* Model of the Velib ETL ingestion pipeline (app/etl.py): the filename    *)
(* timestamp parser, the progress store, the per-file batch writer and the *)
(* pipeline driver, together with the relational store they write to.      *)
(*                                                                         *)
(* Strings that the code inspects character by character (filenames) are   *)
(* sequences of one-character strings.                                     *)
(***************************************************************************)
EXTENDS Integers, Sequences, FiniteSets, TLC

\* ------------------------------------------------------------------------
\* Bounds of the model
\* ------------------------------------------------------------------------
\* number of files in the input directory
MaxFiles == 2
\* number of invocations of import_data_from_folder in one behaviour
MaxRuns == 2
\* number of process terminations (kill -9, power loss) in one behaviour
MaxCrashes == 1
\* number of database statements that raise in one behaviour
MaxDbFaults == 1
\* calls of save_progress that raise
MaxSaveFaults == 1
\* observations in the list the extraction is applied to
MaxObs == 2

\* ------------------------------------------------------------------------
\* Characters and strings
\* ------------------------------------------------------------------------
Digits == <<"0", "1", "2", "3", "4", "5", "6", "7", "8", "9">>

DigitSet == {Digits[i] : i \in 1..Len(Digits)}

IsDigit(c) == c \in DigitSet

DigitVal(c) == (CHOOSE i \in 1..Len(Digits) : Digits[i] = c) - 1

RECURSIVE ToInt(_)
\* int(text) of a matched group: decimal value, surrounding blanks ignored
ToInt(s) ==
    IF s = <<>> THEN 0
    ELSE IF s[Len(s)] = " " THEN ToInt(SubSeq(s, 1, Len(s) - 1))
    ELSE IF s[1] = " " THEN ToInt(Tail(s))
    ELSE ToInt(SubSeq(s, 1, Len(s) - 1)) * Len(Digits) + DigitVal(s[Len(s)])

RECURSIVE Split(_)
\* str.split('_'): the maximal pieces between underscores, empty pieces kept
Split(s) ==
    IF \A i \in 1..Len(s) : s[i] # "_" THEN <<s>>
    ELSE LET i == CHOOSE k \in 1..Len(s) :
                      s[k] = "_" /\ \A j \in 1..(k - 1) : s[j] # "_"
         IN <<SubSeq(s, 1, i - 1)>> \o Split(SubSeq(s, i + 1, Len(s)))

\* str.endswith(suffix)
EndsWith(s, suffix) ==
    /\ Len(s) >= Len(suffix)
    /\ SubSeq(s, Len(s) - Len(suffix) + 1, Len(s)) = suffix

\* ------------------------------------------------------------------------
\* datetime.strptime(s, '%Y%m%d_%H%M%S')
\* ------------------------------------------------------------------------
\* the absence marker returned instead of a timestamp
None == <<>>

D09 == DigitSet
D19 == DigitSet \ {"0"}
D05 == {"0", "1", "2", "3", "4", "5"}

\* The regular expression strptime compiles for '%Y%m%d_%H%M%S': one entry
\* per group, each an ordered list of alternatives, each alternative a list
\* of character classes.
\*   (?P<Y>\d\d\d\d)(?P<m>1[0-2]|0[1-9]|[1-9])
\*   (?P<d>3[0-1]|[1-2]\d|0[1-9]|[1-9]| [1-9])_
\*   (?P<H>2[0-3]|[0-1]\d|\d)(?P<M>[0-5]\d|\d)(?P<S>6[0-1]|[0-5]\d|\d)
FormatRegex ==
    << << <<D09, D09, D09, D09>> >>,
       << <<{"1"}, {"0", "1", "2"}>>, <<{"0"}, D19>>, <<D19>> >>,
       << <<{"3"}, {"0", "1"}>>, <<{"1", "2"}, D09>>, <<{"0"}, D19>>,
          <<D19>>, <<{" "}, D19>> >>,
       << <<{"_"}>> >>,
       << <<{"2"}, {"0", "1", "2", "3"}>>, <<{"0", "1"}, D09>>, <<D09>> >>,
       << <<D05, D09>>, <<D09>> >>,
       << <<{"6"}, {"0", "1"}>>, <<D05, D09>>, <<D09>> >> >>

\* the alternative alt matches s at position p (1-based)
AltMatches(s, p, alt) ==
    /\ p + Len(alt) - 1 <= Len(s)
    /\ \A k \in 1..Len(alt) : s[p + k - 1] \in alt[k]

NoMatch == [ok |-> FALSE, spans |-> <<>>]

RECURSIVE TryAlt(_, _, _, _)
\* re.match with backtracking: group g is tried at position p with its
\* alternatives from number a on, in order; the first alternative after
\* which the remaining groups match wins.  spans = the matched texts.
TryAlt(s, g, p, a) ==
    IF g > Len(FormatRegex) THEN [ok |-> TRUE, spans |-> <<>>]
    ELSE IF a > Len(FormatRegex[g]) THEN NoMatch
    ELSE LET alt == FormatRegex[g][a]
         IN IF AltMatches(s, p, alt)
            THEN LET rest == TryAlt(s, g + 1, p + Len(alt), 1)
                 IN IF rest.ok
                    THEN [ok |-> TRUE,
                          spans |-> <<SubSeq(s, p, p + Len(alt) - 1)>> \o rest.spans]
                    ELSE TryAlt(s, g, p, a + 1)
            ELSE TryAlt(s, g, p, a + 1)

RECURSIVE SumLen(_)
SumLen(spans) == IF spans = <<>> THEN 0 ELSE Len(Head(spans)) + SumLen(Tail(spans))

IsLeap(y) == (y % 4 = 0 /\ y % 100 # 0) \/ y % 400 = 0

DaysInMonth(y, m) ==
    IF m = 2 THEN (IF IsLeap(y) THEN 29 ELSE 28)
    ELSE IF m \in {4, 6, 9, 11} THEN 30 ELSE 31

\* datetime(year, month, day, hour, minute, second) accepts the fields
ValidDateTime(y, m, d, hh, mm, ss) ==
    /\ y \in 1..9999
    /\ m \in 1..12
    /\ d \in 1..DaysInMonth(y, m)
    /\ hh \in 0..23
    /\ mm \in 0..59
    /\ ss \in 0..59

Ok(v) == [raised |-> FALSE, exc |-> "", value |-> v]
Raise(e) == [raised |-> TRUE, exc |-> e, value |-> None]

\* strptime(s, '%Y%m%d_%H%M%S'), a timestamp being the tuple
\* <<year, month, day, hour, minute, second>>: ValueError when the expression does not
\* match, when unconverted data remains after the match, or when the fields
\* are no date and time
strptime(s) ==
    LET found == TryAlt(s, 1, 1, 1)
    IN IF ~found.ok THEN Raise("ValueError")
       ELSE IF SumLen(found.spans) # Len(s) THEN Raise("ValueError")
       ELSE LET y  == ToInt(found.spans[1])
                m  == ToInt(found.spans[2])
                d  == ToInt(found.spans[3])
                hh == ToInt(found.spans[5])
                mm == ToInt(found.spans[6])
                ss == ToInt(found.spans[7])
            IN IF ValidDateTime(y, m, d, hh, mm, ss)
               THEN Ok(<<y, m, d, hh, mm, ss>>)
               ELSE Raise("ValueError")

\* body of the try block of parse_timestamp_from_filename
ParseBody(fname) ==
    LET toks == Split(fname)
    IN IF Len(toks) < 3 THEN Raise("IndexError")
       ELSE strptime(toks[2] \o <<"_">> \o toks[3])

\* the outcome "an exception leaves the function"
Raised == <<"raised">>

\* variant: the handler catches ValueError only
parse_timestamp_ValueErrorOnly(fname) ==
    LET r == ParseBody(fname)
    IN IF ~r.raised THEN r.value
       ELSE IF r.exc = "ValueError" THEN None ELSE Raised

\* parse_timestamp_from_filename: the bare except turns every exception
\* into None
parse_timestamp_from_filename(fname) ==
    LET r == ParseBody(fname)
    IN IF r.raised THEN None ELSE r.value

\* ------------------------------------------------------------------------
\* Input files: names and contents
\* ------------------------------------------------------------------------
ExtJson == <<".", "j", "s", "o", "n">>
ExtGz   == <<".", "g", "z">>
ExtTxt  == <<".", "t", "x", "t">>

Day0101 == <<"2", "0", "2", "4", "0", "1", "0", "1">>
T0800 == <<"0", "8", "0", "0", "0", "0">>
T0805 == <<"0", "8", "0", "5", "0", "0">>
T0810 == <<"0", "8", "1", "0", "0", "0">>
T0815 == <<"0", "8", "1", "5", "0", "0">>
T0820 == <<"0", "8", "2", "0", "0", "0">>
Us == <<"_">>

\* velib_20240101_080000.json
NameScenario == <<"v", "e", "l", "i", "b">> \o Us \o Day0101 \o Us \o T0800 \o ExtJson
\* v_20240101_080000_a.json, v_20240101_080000_b.json.gz
NameT1a == <<"v">> \o Us \o Day0101 \o Us \o T0800 \o Us \o <<"a">> \o ExtJson
NameT1b == <<"v">> \o Us \o Day0101 \o Us \o T0800 \o Us \o <<"b">> \o ExtJson \o ExtGz
NameT2  == <<"v">> \o Us \o Day0101 \o Us \o T0805 \o Us \o <<"a">> \o ExtJson
NameT3  == <<"v">> \o Us \o Day0101 \o Us \o T0810 \o Us \o <<"a">> \o ExtJson
NameT4  == <<"v">> \o Us \o Day0101 \o Us \o T0815 \o Us \o <<"a">> \o ExtJson
NameT5  == <<"v">> \o Us \o Day0101 \o Us \o T0820 \o Us \o <<"a">> \o ExtJson \o ExtGz
\* v_20240101_080000_a.txt: not a candidate of the import
NameTxt == <<"v">> \o Us \o Day0101 \o Us \o T0800 \o Us \o <<"a">> \o ExtTxt

\* a JSON null, and the value dict.get returns for a missing key
JNull == "null"

\* station 16107 "Test" with the electric bike BIKE1 docked
Obs16107 ==
    [station |-> [code |-> "16107", name |-> "Test",
                  gps |-> [latitude |-> "48.8", longitude |-> "2.3"],
                  stationType |-> JNull, type |-> JNull],
     state |-> "ok", nbBike |-> 1, nbEbike |-> 1, nbFreeDock |-> 5,
     bikes |-> <<[bikeName |-> "BIKE1", bikeElectric |-> "true",
                  bikeStatus |-> "free", dockPosition |-> 1]>>]

\* the same station and bike five minutes later, with other attributes
Obs16107Later ==
    [station |-> [code |-> "16107", name |-> "Renamed",
                  gps |-> [latitude |-> "48.9", longitude |-> "2.4"],
                  stationType |-> "yes", type |-> "PLUS"],
     state |-> "in_use", nbBike |-> 0, nbEbike |-> 0, nbFreeDock |-> 6,
     bikes |-> <<[bikeName |-> "BIKE1", bikeElectric |-> "false",
                  bikeStatus |-> "busy", dockPosition |-> 2]>>]

\* another station, with one named bike and one bike entry without a name
Obs16108 ==
    [station |-> [code |-> "16108", name |-> "Other",
                  gps |-> [latitude |-> "48.7", longitude |-> "2.2"],
                  stationType |-> "no", type |-> "STANDARD"],
     state |-> "ok", nbBike |-> 1, nbEbike |-> 0, nbFreeDock |-> 3,
     bikes |-> <<[bikeName |-> "BIKE2", bikeElectric |-> "false",
                  bikeStatus |-> "free", dockPosition |-> 1],
                 [bikeName |-> JNull, bikeElectric |-> "true",
                  bikeStatus |-> "free", dockPosition |-> 2]>>]

\* an observation without a station code, with a bike nested under it
ObsNoCode ==
    [station |-> [code |-> JNull, name |-> "Ghost",
                  gps |-> [latitude |-> JNull, longitude |-> JNull],
                  stationType |-> JNull, type |-> JNull],
     state |-> "ok", nbBike |-> 1, nbEbike |-> 0, nbFreeDock |-> 0,
     bikes |-> <<[bikeName |-> "BIKE3", bikeElectric |-> "false",
                  bikeStatus |-> "free", dockPosition |-> 1]>>]

\* What a file holds.  kind = "unreadable": opening or reading raises (not
\* gzip data, not UTF-8); "invalid_json": json.loads raises; "object": valid
\* JSON whose top level is an object; "list": a list of observations (data).
Unreadable  == [kind |-> "unreadable", data |-> <<>>]
InvalidJson == [kind |-> "invalid_json", data |-> <<>>]
JsonObject  == [kind |-> "object", data |-> <<>>]
JsonList(obs) == [kind |-> "list", data |-> obs]

File(n, c) == [name |-> n, content |-> c]

\* the files an input directory is made of
Catalog ==
    { File(NameScenario, JsonList(<<Obs16107>>)),
      File(NameT1a, JsonList(<<Obs16107>>)),
      File(NameT1b, JsonList(<<Obs16108, ObsNoCode>>)),
      File(NameT2, JsonList(<<Obs16107Later>>)),
      File(NameT3, JsonObject),
      File(NameT4, InvalidJson),
      File(NameT5, Unreadable),
      File(NameTxt, JsonList(<<Obs16107>>)) }

\* parse_timestamp_from_filename applied to each name of the catalog, computed
\* once: TimestampOf[n] is the value the call on n returns
TimestampOf ==
    [n \in {f.name : f \in Catalog} |-> parse_timestamp_from_filename(n)]

RECURSIVE SeqsUpTo(_, _)
\* the sequences of at most n distinct elements of S
SeqsUpTo(S, n) ==
    IF n = 0 THEN {<<>>}
    ELSE LET shorter == SeqsUpTo(S, n - 1)
         IN shorter \cup
            {Append(q, x) : <<q, x>> \in
                 {<<q, x>> \in shorter \X S :
                      /\ Len(q) = n - 1
                      /\ \A i \in 1..Len(q) : q[i] # x}}

\* the directories the model runs on: at most MaxFiles catalog files, in the
\* order os.listdir returns them
Folders == SeqsUpTo(Catalog, MaxFiles) \ {<<>>}

Range(q) == {q[i] : i \in 1..Len(q)}

\* os.listdir(folder)
ListDir(folder) == [i \in 1..Len(folder) |-> folder[i].name]

ContentOf(folder, fname) ==
    (CHOOSE f \in Range(folder) : f.name = fname).content

RECURSIVE SelectSeq2(_, _)
\* [x for x in q if x in keep]
SelectSeq2(q, keep) ==
    IF q = <<>> THEN <<>>
    ELSE IF Head(q) \in keep THEN <<Head(q)>> \o SelectSeq2(Tail(q), keep)
    ELSE SelectSeq2(Tail(q), keep)

\* [f for f in os.listdir(folder) if f.endswith(('.json', '.gz'))]
CandidateFiles(folder) ==
    LET names == ListDir(folder)
    IN SelectSeq2(names, {n \in Range(names) :
                              EndsWith(n, ExtJson) \/ EndsWith(n, ExtGz)})

\* ------------------------------------------------------------------------
\* The relational store
\* ------------------------------------------------------------------------
EmptyTables ==
    [snapshot |-> {}, station |-> {}, velo |-> {},
     etat_station |-> {}, localisation_velo |-> {}]

\* the columns of the unique constraint each insert conflicts on
StationUnique == {"station_code"}
VeloUnique == {"velo_name"}
EtatStationUnique == {"snapshot_id", "station_code"}
LocalisationVeloUnique == {"snapshot_id", "velo_name"}

KeyOf(row, cols) == [c \in cols |-> row[c]]

RECURSIVE InsertOrReplace(_, _, _)
\* variant: a row whose key is already in the table replaces the old row
InsertOrReplace(table, rows, cols) ==
    IF rows = <<>> THEN table
    ELSE LET r == Head(rows)
             t == {old \in table : KeyOf(old, cols) # KeyOf(r, cols)} \cup {r}
         IN InsertOrReplace(t, Tail(rows), cols)

RECURSIVE InsertOnConflictDoNothing(_, _, _)
\* INSERT INTO t VALUES rows ON CONFLICT DO NOTHING: the rows are taken in
\* order, a row whose key is already in the table (or was put there by an
\* earlier row of the statement) is dropped
InsertOnConflictDoNothing(table, rows, cols) ==
    IF rows = <<>> THEN table
    ELSE LET r == Head(rows)
             t == IF \E old \in table : KeyOf(old, cols) = KeyOf(r, cols)
                  THEN table ELSE table \cup {r}
         IN InsertOnConflictDoNothing(t, Tail(rows), cols)

\* variant: a plain INSERT, a row is added whether the timestamp exists or not
InsertSnapshotRow(tables, ts, nextval) ==
    [tables EXCEPT !.snapshot =
         @ \cup {[snapshot_id |-> nextval, timestamp_capture |-> ts]}]

\* INSERT INTO snapshot (timestamp_capture) VALUES (ts) ON CONFLICT
\* (timestamp_capture) DO UPDATE SET timestamp_capture = EXCLUDED...: a new
\* row takes the value nextval drawn from the sequence of snapshot_id
UpsertSnapshot(tables, ts, nextval) ==
    IF \E r \in tables.snapshot : r.timestamp_capture = ts
    THEN tables
    ELSE [tables EXCEPT !.snapshot =
              @ \cup {[snapshot_id |-> nextval, timestamp_capture |-> ts]}]

\* RETURNING snapshot_id; cursor.fetchone()[0]
ReturningSnapshotId(tables, ts) ==
    (CHOOSE r \in tables.snapshot : r.timestamp_capture = ts).snapshot_id

\* SELECT timestamp_capture FROM snapshot
ExistingSnapshots(tables) == {r.timestamp_capture : r \in tables.snapshot}

\* ------------------------------------------------------------------------
\* process_file_content: extraction of the four buffers
\* ------------------------------------------------------------------------
\* Python's "not value" for a string or None
Falsy(v) == v \in {JNull, ""}

\* A JSON object is a record of its keys, a key it lacks is a field it lacks,
\* and {} is the empty function.  JNullObject stands for a JSON null at a
\* place where the code calls .get(): the call raises AttributeError.
\* JNullArray stands for a JSON null as the value of 'bikes': the for loop
\* raises TypeError.
EmptyDict == <<>>
JNullObject == [json_null |-> "object"]
JNullArray == <<[json_null |-> "array"]>>

IsObject(v) == "json_null" \notin DOMAIN v

Iterable(v) == v # JNullArray

\* d.get(key, default)
Get(d, key, default) == IF key \in DOMAIN d THEN d[key] ELSE default

EmptyBuffers ==
    [station_buffer |-> <<>>, velo_buffer |-> <<>>,
     etat_station_buffer |-> <<>>, localisation_velo_buffer |-> <<>>]

\* the tuple appended to station_buffer; station_info.get('gps', {}) is an
\* object here
StationRow(info) ==
    [station_code |-> Get(info, "code", JNull),
     name |-> Get(info, "name", JNull),
     latitude |-> Get(Get(info, "gps", EmptyDict), "latitude", JNull),
     longitude |-> Get(Get(info, "gps", EmptyDict), "longitude", JNull),
     stationtype |-> Get(info, "stationType", JNull),
     type |-> Get(info, "type", JNull)]

EtatStationRow(sid, o) ==
    [snapshot_id |-> sid, station_code |-> o.station.code,
     state |-> Get(o, "state", JNull), nbbike |-> Get(o, "nbBike", JNull),
     nbebike |-> Get(o, "nbEbike", JNull),
     nbfreedock |-> Get(o, "nbFreeDock", JNull)]

VeloRow(bike) ==
    [velo_name |-> bike.bikeName,
     bikeelectric |-> Get(bike, "bikeElectric", JNull)]

LocalisationVeloRow(sid, code, bike) ==
    [snapshot_id |-> sid, velo_name |-> bike.bikeName, station_code |-> code,
     bikestatus |-> Get(bike, "bikeStatus", JNull),
     dockposition |-> Get(bike, "dockPosition", JNull)]

\* the outcome of the extraction loop: the four buffers, or the exception
\* that left it
Extracted(buf) == [raised |-> FALSE, exc |-> "", buffers |-> buf]
ExtractRaises(e) == [raised |-> TRUE, exc |-> e, buffers |-> EmptyBuffers]

RECURSIVE ExtractBikes(_, _, _, _)
\* for bike in station_data.get('bikes', []): ...
ExtractBikes(bikes, sid, code, buf) ==
    IF bikes = <<>> THEN Extracted(buf)
    ELSE LET bike == Head(bikes)
         IN IF ~IsObject(bike) THEN ExtractRaises("AttributeError")
            ELSE IF Falsy(Get(bike, "bikeName", JNull))
            THEN ExtractBikes(Tail(bikes), sid, code, buf)
            ELSE ExtractBikes(Tail(bikes), sid, code,
                     [buf EXCEPT
                        !.velo_buffer = Append(@, VeloRow(bike)),
                        !.localisation_velo_buffer =
                            Append(@, LocalisationVeloRow(sid, code, bike))])

RECURSIVE ExtractStations(_, _, _)
\* for station_data in data: ...
ExtractStations(data, sid, buf) ==
    IF data = <<>> THEN Extracted(buf)
    ELSE LET o == Head(data)
             station_info == Get(o, "station", EmptyDict)
             station_code == Get(station_info, "code", JNull)
             bikes == Get(o, "bikes", <<>>)
         IN IF ~IsObject(o) THEN ExtractRaises("AttributeError")
            ELSE IF ~IsObject(station_info) THEN ExtractRaises("AttributeError")
            ELSE IF Falsy(station_code)
            THEN ExtractStations(Tail(data), sid, buf)
            ELSE IF ~IsObject(Get(station_info, "gps", EmptyDict))
            THEN ExtractRaises("AttributeError")
            ELSE IF ~Iterable(bikes) THEN ExtractRaises("TypeError")
            ELSE LET inner ==
                         ExtractBikes(bikes, sid, station_code,
                             [buf EXCEPT
                                !.station_buffer =
                                    Append(@, StationRow(station_info)),
                                !.etat_station_buffer =
                                    Append(@, EtatStationRow(sid, o))])
                 IN IF inner.raised THEN inner
                    ELSE ExtractStations(Tail(data), sid, inner.buffers)

Extract(data, sid) == ExtractStations(data, sid, EmptyBuffers)

\* ------------------------------------------------------------------------
\* The progress store
\* ------------------------------------------------------------------------
\* The progress file on disk.  state = "missing": no such file; "empty": the
\* file exists with no content (opened for writing, nothing flushed yet);
\* "partial": a prefix of a JSON text; "valid": the JSON text of {"done": done}
ProgressFile(st, done) == [state |-> st, done |-> done]

\* A progress file holding a whole JSON text that save_progress did not
\* write: value is what json.loads returns for it
OtherJsonFile(value) == [state |-> "other_json", done |-> <<>>, value |-> value]

\* JSON texts of other shapes: {}, [], null, {"done": null}
JEmptyObject == EmptyDict
JEmptyArray == [json_array |-> <<>>]
JDoneNull == [done |-> JNullArray]
OtherJsonValues == {JEmptyObject, JEmptyArray, JNullObject, JDoneNull}

RECURSIVE RebuildLoop(_, _)
\* for filename in all_files: if timestamp in existing_snapshots: append
RebuildLoop(files, existing) ==
    IF files = <<>> THEN <<>>
    ELSE LET rest == RebuildLoop(Tail(files), existing)
         IN IF TimestampOf[Head(files)] \in existing
            THEN <<Head(files)>> \o rest
            ELSE rest

\* variant: a file without a timestamp counts as done too
RECURSIVE RebuildLoopNoneDone(_, _)
RebuildLoopNoneDone(files, existing) ==
    IF files = <<>> THEN <<>>
    ELSE LET rest == RebuildLoopNoneDone(Tail(files), existing)
             ts == TimestampOf[Head(files)]
         IN IF ts = None \/ ts \in existing
            THEN <<Head(files)>> \o rest
            ELSE rest

rebuild_marks_unparsable(tables, folder) ==
    [done |-> RebuildLoopNoneDone(CandidateFiles(folder), ExistingSnapshots(tables))]

\* variant: once the store holds a snapshot, every file of the directory
\* counts as done
rebuild_all_when_any(tables, folder) ==
    [done |-> IF ExistingSnapshots(tables) = {} THEN <<>>
              ELSE CandidateFiles(folder)]

rebuild_progress_from_database(tables, folder) ==
    [done |-> RebuildLoop(CandidateFiles(folder), ExistingSnapshots(tables))]

\* variant: an empty file is read as a record with an empty done list
load_progress_EmptyIsRecord(pf, tables, folder) ==
    IF pf.state \in {"valid", "empty"}
    THEN [done |-> pf.done]
    ELSE rebuild_progress_from_database(tables, folder)

\* load_progress: the record of a valid file, else the rebuilt one
load_progress(pf, tables, folder) ==
    IF pf.state = "valid"
    THEN [done |-> pf.done]
    ELSE IF pf.state = "other_json"
         THEN pf.value
         ELSE rebuild_progress_from_database(tables, folder)

\* set(progress["done"]): TypeError when progress is None or a list, KeyError
\* when it is a dict without the key, TypeError when the value is None
set_progress_done(p) ==
    IF ~IsObject(p) \/ "json_array" \in DOMAIN p THEN Raise("TypeError")
    ELSE IF "done" \notin DOMAIN p THEN Raise("KeyError")
    ELSE IF ~Iterable(p.done) THEN Raise("TypeError")
    ELSE Ok(Range(p.done))

\* variant: every file of the directory is processed again
RemainingAll(all_files, done) == all_files

\* variant: only the done files whose name gives a timestamp are left out
RemainingButParsableDone(all_files, done) ==
    SelectSeq2(all_files,
               Range(all_files) \ {n \in done : TimestampOf[n] # None})

\* remaining_files = [f for f in all_files if f not in done_files]
RemainingFiles(all_files, done) == SelectSeq2(all_files, Range(all_files) \ done)

\* ------------------------------------------------------------------------
\* The connection
\* ------------------------------------------------------------------------
\* A psycopg2 connection: in_tx tells whether a transaction is open, view
\* holds the tables as the connection sees them (the committed tables plus
\* its own uncommitted writes)
Connection(in_tx, view) == [in_tx |-> in_tx, view |-> view]

\* variant: the rollback of insert_snapshot_and_get_id is missing
NoRollback(c, committed_tables) == c

\* connection.rollback(): the uncommitted writes are dropped
Rollback(c, committed_tables) == Connection(FALSE, committed_tables)

\* variant: the handler of a failed batch leaves the transaction open
KeepTransaction(c, committed_tables) == c

\* the rollback of the except branch of process_file_content
RollbackBatch(c, committed_tables) == Rollback(c, committed_tables)

ZeroErrors == [invalid_format |-> 0, snapshot_error |-> 0, generic_error |-> 0]

Count(errs, counter) == [errs EXCEPT ![counter] = @ + 1]

\* ------------------------------------------------------------------------
\* State
\* ------------------------------------------------------------------------
VARIABLES
    folder,           \* the input directory: its files in listing order
    progress_file,    \* PROGRESS_FILE on disk
    db,               \* the committed tables of the store
    seq,              \* last value drawn from the sequence of snapshot_id
    conn,             \* the connection of the running import
    pc,               \* where the import process stands ("idle": not running)
    progress,         \* progress, the record in memory
    done_files,       \* done_files
    remaining_files,  \* the part of remaining_files still to be visited
    filename,         \* filename of the loop
    timestamp,        \* timestamp of the loop
    content,          \* content read from the file
    snapshot_id,      \* snapshot_id of process_file_content (0: none)
    buffers,          \* the four buffers of process_file_content
    errors,           \* errors, the three counters
    loaded_by,        \* which branch of load_progress produced progress
    faults,           \* number of database statements that raised so far
    history,          \* how each finished run ended, and the tables then
    tx_files,         \* files with statements in the open transaction
    written,          \* files with statements committed during this run
    raised_batch,     \* files one of whose bulk inserts raised in this run
    committed,        \* files whose own commit has been executed, ever
    db_faulted,       \* files a database statement raised for, ever
    errors_before,    \* errors as they stood when the loop took filename
    visited,          \* the files the loop of this run has taken, in order
    failed_saved,     \* files saved as done on disk after a counted error
    save_faults,      \* number of calls of save_progress that raised so far
    API_KEY_SECRET,   \* API_KEY_SECRET of main.py: {} for None, {s} for s
    request,          \* the HTTP request the API is handling (NoRequest: none)
    responses         \* the status codes the API has answered, in order

store_vars == <<db, seq, conn>>
local_vars == <<progress, done_files, remaining_files, filename, timestamp,
                content, snapshot_id, buffers, errors, loaded_by>>
audit_vars == <<errors_before, visited, failed_saved, save_faults>>
ghost_vars == <<faults, history, tx_files, written, raised_batch, committed,
                db_faulted, audit_vars>>
api_vars == <<API_KEY_SECRET, request, responses>>
vars == <<folder, progress_file, store_vars, pc, local_vars, ghost_vars,
          api_vars>>

Runs == Len(history) + (IF pc = "idle" THEN 0 ELSE 1)
Crashes == Cardinality({i \in 1..Len(history) : history[i].how = "crashed"})

\* no request is being handled: a record without method
NoRequest == [method |-> "none"]

\* the API has served no request
ApiIdle ==
    /\ API_KEY_SECRET = {}
    /\ request = NoRequest
    /\ responses = <<>>

\* the state of a process that is not running
IdleLocals ==
    /\ progress = [done |-> <<>>]
    /\ done_files = {}
    /\ remaining_files = <<>>
    /\ filename = <<>>
    /\ timestamp = None
    /\ content = Unreadable
    /\ snapshot_id = 0
    /\ buffers = EmptyBuffers
    /\ loaded_by = "none"

Init ==
    /\ folder \in Folders
    /\ progress_file = ProgressFile("missing", <<>>)
    /\ db = EmptyTables
    /\ seq = 0
    /\ conn = Connection(FALSE, EmptyTables)
    /\ pc = "idle"
    /\ IdleLocals
    /\ errors = ZeroErrors
    /\ faults = 0
    /\ history = <<>>
    /\ tx_files = {}
    /\ written = {}
    /\ raised_batch = {}
    /\ committed = {}
    /\ db_faulted = {}
    /\ errors_before = ZeroErrors
    /\ visited = <<>>
    /\ failed_saved = {}
    /\ save_faults = 0
    /\ ApiIdle

\* ------------------------------------------------------------------------
\* import_data_from_folder
\* ------------------------------------------------------------------------
\* progress = load_progress()
LoadProgress ==
    /\ pc = "idle"
    /\ Runs < MaxRuns
    /\ progress' = load_progress(progress_file, db, folder)
    /\ loaded_by' = IF progress_file.state = "valid" THEN "file" ELSE "rebuild"
    /\ pc' = "loaded"
    /\ written' = {}
    /\ raised_batch' = {}
    /\ visited' = <<>>
    /\ UNCHANGED <<folder, progress_file, store_vars, done_files,
                   remaining_files, filename, timestamp, content, snapshot_id,
                   buffers, errors, faults, history, tx_files, committed,
                   db_faulted, errors_before, failed_saved, save_faults>>
    /\ UNCHANGED api_vars

\* done_files = set(progress["done"]); the connection; all_files;
\* remaining_files; errors
ListFiles ==
    /\ pc = "loaded"
    /\ ~set_progress_done(progress).raised
    /\ done_files' = set_progress_done(progress).value
    /\ conn' = Connection(FALSE, db)
    /\ remaining_files' = RemainingFiles(CandidateFiles(folder), done_files')
    /\ errors' = ZeroErrors
    /\ pc' = "loop"
    /\ UNCHANGED <<folder, progress_file, db, seq, progress, filename,
                   timestamp, content, snapshot_id, buffers, loaded_by,
                   ghost_vars>>
    /\ UNCHANGED api_vars

\* for filename in remaining_files: timestamp = parse_timestamp_from_filename
NextFile ==
    /\ pc = "loop"
    /\ remaining_files # <<>>
    /\ filename' = Head(remaining_files)
    /\ remaining_files' = Tail(remaining_files)
    /\ timestamp' = TimestampOf[Head(remaining_files)]
    /\ pc' = IF timestamp' = None THEN "unparsable" ELSE "read"
    /\ snapshot_id' = 0
    /\ buffers' = EmptyBuffers
    /\ errors_before' = errors
    /\ visited' = Append(visited, Head(remaining_files))
    /\ UNCHANGED <<folder, progress_file, store_vars, progress, done_files,
                   content, errors, loaded_by, faults, history, tx_files,
                   written, raised_batch, committed, db_faulted, failed_saved,
                   save_faults>>
    /\ UNCHANGED api_vars

\* variant: the file without timestamp is counted and skipped, not recorded
UnparsableSkipped ==
    /\ pc = "unparsable"
    /\ errors' = Count(errors, "generic_error")
    /\ pc' = "loop"
    /\ UNCHANGED <<folder, progress_file, store_vars, progress, done_files,
                   remaining_files, filename, timestamp, content, snapshot_id,
                   buffers, loaded_by, ghost_vars>>
    /\ UNCHANGED api_vars

\* if timestamp is None: errors['generic_error'] += 1; progress["done"].append
Unparsable ==
    /\ pc = "unparsable"
    /\ errors' = Count(errors, "generic_error")
    /\ progress' = [done |-> Append(progress.done, filename)]
    /\ pc' = "save_open"
    /\ UNCHANGED <<folder, progress_file, store_vars, done_files,
                   remaining_files, filename, timestamp, content, snapshot_id,
                   buffers, loaded_by, ghost_vars>>
    /\ UNCHANGED api_vars

\* save_progress, first half: open(PROGRESS_FILE, "w") truncates the file
SaveOpen ==
    /\ pc = "save_open"
    /\ progress_file' = ProgressFile("empty", <<>>)
    /\ pc' = "save_dump"
    /\ UNCHANGED <<folder, store_vars, local_vars, ghost_vars>>
    /\ UNCHANGED api_vars

\* save_progress, second half: json.dump and the close of the file
SaveDump ==
    /\ pc = "save_dump"
    /\ progress_file' = ProgressFile("valid", progress.done)
    /\ pc' = "loop"
    /\ failed_saved' = IF errors # errors_before
                       THEN failed_saved \cup {filename} ELSE failed_saved
    /\ UNCHANGED <<folder, store_vars, local_vars, faults, history, tx_files,
                   written, raised_batch, committed, db_faulted,
                   errors_before, visited, save_faults>>
    /\ UNCHANGED api_vars

\* the read of the file; on an exception the handler of the loop counts a
\* generic_error and the loop goes on
ReadFile ==
    /\ pc = "read"
    /\ LET c == ContentOf(folder, filename)
       IN IF c.kind = "unreadable"
          THEN /\ errors' = Count(errors, "generic_error")
               /\ pc' = "loop"
               /\ UNCHANGED content
          ELSE /\ content' = c
               /\ pc' = "snapshot"
               /\ UNCHANGED errors
    /\ UNCHANGED <<folder, progress_file, store_vars, progress, done_files,
                   remaining_files, filename, timestamp, snapshot_id, buffers,
                   loaded_by, ghost_vars>>
    /\ UNCHANGED api_vars

\* insert_snapshot_and_get_id returns the id
InsertSnapshot ==
    /\ pc = "snapshot"
    /\ seq' = seq + 1
    /\ LET view == UpsertSnapshot(conn.view, timestamp, seq + 1)
       IN /\ conn' = Connection(TRUE, view)
          /\ snapshot_id' = ReturningSnapshotId(view, timestamp)
    /\ tx_files' = tx_files \cup {filename}
    /\ pc' = "decode"
    /\ UNCHANGED <<folder, progress_file, db, progress, done_files,
                   remaining_files, filename, timestamp, content, buffers,
                   errors, loaded_by, faults, history, written, raised_batch,
                   committed, db_faulted, audit_vars>>
    /\ UNCHANGED api_vars

\* variant: a snapshot error leaves the loop, the files that follow are not
\* taken
InsertSnapshotFailsBreaks ==
    /\ pc = "snapshot"
    /\ faults < MaxDbFaults
    /\ faults' = faults + 1
    /\ db_faulted' = db_faulted \cup {filename}
    /\ conn' = Rollback(conn, db)
    /\ tx_files' = {}
    /\ errors' = Count(errors, "snapshot_error")
    /\ remaining_files' = <<>>
    /\ pc' = "loop"
    /\ UNCHANGED <<folder, progress_file, db, seq, progress, done_files,
                   filename, timestamp, content, snapshot_id, buffers,
                   loaded_by, history, written, raised_batch, committed,
                   audit_vars>>
    /\ UNCHANGED api_vars

\* the statement of insert_snapshot_and_get_id raises: rollback, None is
\* returned, process_file_content counts a snapshot_error and returns
InsertSnapshotFails ==
    /\ pc = "snapshot"
    /\ faults < MaxDbFaults
    /\ faults' = faults + 1
    /\ db_faulted' = db_faulted \cup {filename}
    /\ conn' = Rollback(conn, db)
    /\ tx_files' = {}
    /\ errors' = Count(errors, "snapshot_error")
    /\ pc' = "append"
    /\ UNCHANGED <<folder, progress_file, db, seq, progress, done_files,
                   remaining_files, filename, timestamp, content, snapshot_id,
                   buffers, loaded_by, history, written, raised_batch,
                   committed, audit_vars>>
    /\ UNCHANGED api_vars

\* data = json.loads(content); the isinstance test; the extraction loop
Decode ==
    /\ pc = "decode"
    /\ \/ /\ \/ content.kind = "invalid_json"
             \/ /\ content.kind = "list"
                /\ Extract(content.data, snapshot_id).raised
          /\ conn' = RollbackBatch(conn, db)
          /\ tx_files' = IF conn'.in_tx THEN tx_files ELSE {}
          /\ errors' = Count(errors, "generic_error")
          /\ pc' = "append"
          /\ UNCHANGED buffers
       \/ /\ content.kind = "object"
          /\ errors' = Count(errors, "invalid_format")
          /\ pc' = "append"
          /\ UNCHANGED <<conn, tx_files, buffers>>
       \/ /\ content.kind = "list"
          /\ ~Extract(content.data, snapshot_id).raised
          /\ buffers' = Extract(content.data, snapshot_id).buffers
          /\ pc' = "insert_station"
          /\ UNCHANGED <<conn, tx_files, errors>>
    /\ UNCHANGED <<folder, progress_file, db, seq, progress, done_files,
                   remaining_files, filename, timestamp, content, snapshot_id,
                   loaded_by, faults, history, written, raised_batch,
                   committed, db_faulted, audit_vars>>
    /\ UNCHANGED api_vars

\* variant: the connection is in autocommit mode, each statement is committed
\* as it is made
BulkInsertAutocommit(at, table, buffer, cols, next) ==
    /\ pc = at
    /\ LET view == IF buffers[buffer] = <<>> THEN conn.view
                   ELSE [conn.view EXCEPT ![table] =
                            InsertOnConflictDoNothing(@, buffers[buffer], cols)]
       IN /\ conn' = Connection(FALSE, view)
          /\ db' = view
    /\ pc' = next
    /\ UNCHANGED <<folder, progress_file, seq, local_vars, ghost_vars>>
    /\ UNCHANGED api_vars

\* one "if buffer: execute_values(...)" of process_file_content
BulkInsert(at, table, buffer, cols, next) ==
    /\ pc = at
    /\ conn' = IF buffers[buffer] = <<>> THEN conn
               ELSE Connection(TRUE,
                        [conn.view EXCEPT ![table] =
                            InsertOnConflictDoNothing(@, buffers[buffer], cols)])
    /\ pc' = next
    /\ UNCHANGED <<folder, progress_file, db, seq, local_vars, ghost_vars>>
    /\ UNCHANGED api_vars

InsertStation ==
    BulkInsert("insert_station", "station", "station_buffer", StationUnique,
               "insert_velo")

\* variant: an empty bike batch ends the statements of the file, the two
\* inserts after it are not made
InsertVeloEmptyEnds ==
    /\ pc = "insert_velo"
    /\ conn' = IF buffers.velo_buffer = <<>> THEN conn
               ELSE Connection(TRUE,
                        [conn.view EXCEPT !.velo =
                            InsertOnConflictDoNothing(@, buffers.velo_buffer,
                                                      VeloUnique)])
    /\ pc' = IF buffers.velo_buffer = <<>> THEN "commit" ELSE "insert_etat"
    /\ UNCHANGED <<folder, progress_file, db, seq, local_vars, ghost_vars>>
    /\ UNCHANGED api_vars

InsertVelo ==
    BulkInsert("insert_velo", "velo", "velo_buffer", VeloUnique, "insert_etat")

\* variant: ON CONFLICT DO UPDATE, the row of the batch replaces the row of
\* the table
InsertEtatStationUpdates ==
    /\ pc = "insert_etat"
    /\ conn' = IF buffers.etat_station_buffer = <<>> THEN conn
               ELSE Connection(TRUE,
                        [conn.view EXCEPT !.etat_station =
                            InsertOrReplace(@, buffers.etat_station_buffer,
                                            EtatStationUnique)])
    /\ pc' = "insert_loc"
    /\ UNCHANGED <<folder, progress_file, db, seq, local_vars, ghost_vars>>
    /\ UNCHANGED api_vars

InsertEtatStation ==
    BulkInsert("insert_etat", "etat_station", "etat_station_buffer",
               EtatStationUnique, "insert_loc")

InsertLocalisationVelo ==
    BulkInsert("insert_loc", "localisation_velo", "localisation_velo_buffer",
               LocalisationVeloUnique, "commit")

\* the buffer the statement at pc sends
BufferAt(at) ==
    CASE at = "insert_station" -> "station_buffer"
      [] at = "insert_velo" -> "velo_buffer"
      [] at = "insert_etat" -> "etat_station_buffer"
      [] at = "insert_loc" -> "localisation_velo_buffer"

\* variant: the handler keeps what the batch had written so far and commits
\* it
BulkInsertFailsCommitsPart ==
    /\ pc \in {"insert_station", "insert_velo", "insert_etat", "insert_loc"}
    /\ buffers[BufferAt(pc)] # <<>>
    /\ faults < MaxDbFaults
    /\ faults' = faults + 1
    /\ db_faulted' = db_faulted \cup {filename}
    /\ raised_batch' = raised_batch \cup {filename}
    /\ db' = conn.view
    /\ conn' = Connection(FALSE, conn.view)
    /\ tx_files' = {}
    /\ errors' = Count(errors, "generic_error")
    /\ pc' = "append"
    /\ UNCHANGED <<folder, progress_file, seq, progress, done_files,
                   remaining_files, filename, timestamp, content, snapshot_id,
                   buffers, loaded_by, history, written, committed,
                   audit_vars>>
    /\ UNCHANGED api_vars

\* one of the four execute_values raises: the except branch rolls back and
\* counts a generic_error
BulkInsertFails ==
    /\ pc \in {"insert_station", "insert_velo", "insert_etat", "insert_loc"}
    /\ buffers[BufferAt(pc)] # <<>>
    /\ faults < MaxDbFaults
    /\ faults' = faults + 1
    /\ db_faulted' = db_faulted \cup {filename}
    /\ raised_batch' = raised_batch \cup {filename}
    /\ conn' = RollbackBatch(conn, db)
    /\ tx_files' = IF conn'.in_tx THEN tx_files ELSE {}
    /\ errors' = Count(errors, "generic_error")
    /\ pc' = "append"
    /\ UNCHANGED <<folder, progress_file, db, seq, progress, done_files,
                   remaining_files, filename, timestamp, content, snapshot_id,
                   buffers, loaded_by, history, written, committed,
                   audit_vars>>
    /\ UNCHANGED api_vars

\* cursor.connection.commit()
Commit ==
    /\ pc = "commit"
    /\ db' = conn.view
    /\ conn' = Connection(FALSE, conn.view)
    /\ written' = written \cup tx_files \cup {filename}
    /\ tx_files' = {}
    /\ committed' = committed \cup {filename}
    /\ pc' = "append"
    /\ UNCHANGED <<folder, progress_file, seq, local_vars, faults, history,
                   raised_batch, db_faulted, audit_vars>>
    /\ UNCHANGED api_vars

\* variant: the done list is set to the filename instead of being extended
AppendDoneReplaces ==
    /\ pc = "append"
    /\ progress' = [done |-> <<filename>>]
    /\ pc' = "save_open"
    /\ UNCHANGED <<folder, progress_file, store_vars, done_files,
                   remaining_files, filename, timestamp, content, snapshot_id,
                   buffers, errors, loaded_by, ghost_vars>>
    /\ UNCHANGED api_vars

\* progress["done"].append(filename) after process_file_content
AppendDone ==
    /\ pc = "append"
    /\ progress' = [done |-> Append(progress.done, filename)]
    /\ pc' = "save_open"
    /\ UNCHANGED <<folder, progress_file, store_vars, done_files,
                   remaining_files, filename, timestamp, content, snapshot_id,
                   buffers, errors, loaded_by, ghost_vars>>
    /\ UNCHANGED api_vars

\* the memory of the process is gone
ProcessEnds ==
    /\ progress' = [done |-> <<>>]
    /\ done_files' = {}
    /\ remaining_files' = <<>>
    /\ filename' = <<>>
    /\ timestamp' = None
    /\ content' = Unreadable
    /\ snapshot_id' = 0
    /\ buffers' = EmptyBuffers
    /\ loaded_by' = "none"

\* the loop is over: cursor.close(); conn.close().  Closing the connection
\* drops a transaction left open.
Finish ==
    /\ pc = "loop"
    /\ remaining_files = <<>>
    /\ conn' = Connection(FALSE, db)
    /\ tx_files' = {}
    /\ pc' = "idle"
    /\ ProcessEnds
    /\ history' = Append(history, [how |-> "completed", tables |-> db])
    /\ UNCHANGED <<folder, progress_file, db, seq, errors, faults, written,
                   raised_batch, committed, db_faulted, audit_vars>>
    /\ UNCHANGED api_vars

\* The process is terminated.  The server drops its open transaction; a
\* progress file that was open for writing keeps what had reached the disk,
\* nothing or a prefix of the text.
Crash ==
    /\ pc # "idle"
    /\ Crashes < MaxCrashes
    /\ conn' = Connection(FALSE, db)
    /\ tx_files' = {}
    /\ IF pc = "save_dump"
       THEN \E st \in {"empty", "partial"} : progress_file' = ProgressFile(st, <<>>)
       ELSE UNCHANGED progress_file
    /\ pc' = "idle"
    /\ ProcessEnds
    /\ errors' = ZeroErrors
    /\ errors_before' = ZeroErrors
    /\ visited' = <<>>
    /\ history' = Append(history, [how |-> "crashed", tables |-> db])
    /\ UNCHANGED <<folder, db, seq, faults, written, raised_batch, committed,
                   db_faulted, failed_saved, save_faults>>
    /\ UNCHANGED api_vars

Next ==
    \/ LoadProgress
    \/ ListFiles
    \/ NextFile
    \/ Unparsable
    \/ SaveOpen
    \/ SaveDump
    \/ ReadFile
    \/ InsertSnapshot
    \/ InsertSnapshotFails
    \/ Decode
    \/ InsertStation
    \/ InsertVelo
    \/ InsertEtatStation
    \/ InsertLocalisationVelo
    \/ BulkInsertFails
    \/ Commit
    \/ AppendDone
    \/ Finish
    \/ Crash

Spec == Init /\ [][Next]_vars

\* a step of the running import itself: every action but the start of a run
\* and the termination of the process
RunStep ==
    \/ ListFiles
    \/ NextFile
    \/ Unparsable
    \/ SaveOpen
    \/ SaveDump
    \/ ReadFile
    \/ InsertSnapshot
    \/ InsertSnapshotFails
    \/ Decode
    \/ InsertStation
    \/ InsertVelo
    \/ InsertEtatStation
    \/ InsertLocalisationVelo
    \/ BulkInsertFails
    \/ Commit
    \/ AppendDone
    \/ Finish

\* runs that are not terminated from outside, one after the other
NextUninterrupted ==
    \/ LoadProgress
    \/ RunStep

\* the import is sequential code without a wait: a process that is not
\* terminated goes on executing
SpecUninterrupted == Init /\ [][NextUninterrupted]_vars /\ WF_vars(RunStep)

\* ------------------------------------------------------------------------
\* The import with a progress file that cannot always be written
\* ------------------------------------------------------------------------
\* save_progress raises: open() fails and the file is as it was, or the write
\* fails once the file has been truncated (disk full) and the file holds
\* nothing or a prefix of the text.  At line 252 the call is outside the try
\* and the exception leaves import_data_from_folder; at line 269 it is inside
\* the try, the handler of line 271 counts a generic_error and the loop goes
\* on.
SaveProgressFails ==
    /\ pc \in {"save_open", "save_dump"}
    /\ save_faults < MaxSaveFaults
    /\ save_faults' = save_faults + 1
    /\ IF pc = "save_dump"
       THEN \E st \in {"empty", "partial"} : progress_file' = ProgressFile(st, <<>>)
       ELSE UNCHANGED progress_file
    /\ IF timestamp = None
       THEN /\ conn' = Connection(FALSE, db)
            /\ tx_files' = {}
            /\ pc' = "idle"
            /\ ProcessEnds
            /\ errors' = ZeroErrors
            /\ errors_before' = ZeroErrors
            /\ visited' = <<>>
            /\ history' = Append(history, [how |-> "raised", tables |-> db])
       ELSE /\ errors' = Count(errors, "generic_error")
            /\ pc' = "loop"
            /\ UNCHANGED <<conn, tx_files, progress, done_files,
                           remaining_files, filename, timestamp, content,
                           snapshot_id, buffers, loaded_by, errors_before,
                           visited, history>>
    /\ UNCHANGED <<folder, db, seq, faults, written, raised_batch, committed,
                   db_faulted, failed_saved>>
    /\ UNCHANGED api_vars

NextSaveFails ==
    \/ Next
    \/ SaveProgressFails

SpecSaveFails == Init /\ [][NextSaveFails]_vars

\* the store after a file of timestamp ts holding the list data was
\* committed to an empty store
StoreHolding(data, ts) ==
    LET view == UpsertSnapshot(EmptyTables, ts, 1)
        buf == Extract(data, ReturningSnapshotId(view, ts)).buffers
    IN [snapshot |-> view.snapshot,
        station |-> InsertOnConflictDoNothing({}, buf.station_buffer,
                                              StationUnique),
        velo |-> InsertOnConflictDoNothing({}, buf.velo_buffer, VeloUnique),
        etat_station |-> InsertOnConflictDoNothing({}, buf.etat_station_buffer,
                                                   EtatStationUnique),
        localisation_velo |->
            InsertOnConflictDoNothing({}, buf.localisation_velo_buffer,
                                      LocalisationVeloUnique)]

\* the store the file meets: empty, or holding the rows of a file of the same
\* timestamp committed before (the same file, or another file of that
\* timestamp)
PriorStores == {EmptyTables, StoreHolding(<<Obs16107>>, TimestampOf[NameT1a])}

\* ------------------------------------------------------------------------
\* The start of import_data_from_folder on its own: load_progress and the
\* done-set, on each of a set of progress files
\* ------------------------------------------------------------------------
\* set(progress["done"]) raises: the exception leaves import_data_from_folder,
\* no connection was opened yet
ListFilesRaises ==
    /\ pc = "loaded"
    /\ set_progress_done(progress).raised
    /\ pc' = "idle"
    /\ ProcessEnds
    /\ history' = Append(history, [how |-> "raised", tables |-> db])
    /\ UNCHANGED <<folder, progress_file, store_vars, errors, faults, tx_files,
                   written, raised_batch, committed, db_faulted, audit_vars>>
    /\ UNCHANGED api_vars

\* the progress files a run can find
ProgressFiles(dir) ==
    {ProgressFile(st, <<>>) : st \in {"missing", "empty", "partial"}}
        \cup {ProgressFile("valid", done) : done \in {<<>>, ListDir(dir)}}
        \cup {OtherJsonFile(v) : v \in OtherJsonValues}

InitLoad ==
    /\ folder \in Folders
    /\ progress_file \in ProgressFiles(folder)
    /\ db \in PriorStores
    /\ seq = Cardinality(db.snapshot)
    /\ conn = Connection(FALSE, db)
    /\ pc = "idle"
    /\ IdleLocals
    /\ errors = ZeroErrors
    /\ faults = 0
    /\ history = <<>>
    /\ tx_files = {}
    /\ written = {}
    /\ raised_batch = {}
    /\ committed = {}
    /\ db_faulted = {}
    /\ errors_before = ZeroErrors
    /\ visited = <<>>
    /\ failed_saved = {}
    /\ save_faults = 0
    /\ ApiIdle

NextLoad ==
    \/ LoadProgress
    \/ ListFiles
    \/ ListFilesRaises

SpecLoad == InitLoad /\ [][NextLoad]_vars

\* ------------------------------------------------------------------------
\* process_file_content on its own, from the snapshot statement to the
\* commit, on each of a set of contents
\* ------------------------------------------------------------------------
BikeNamed == [bikeName |-> "BIKE4", bikeElectric |-> "true",
              bikeStatus |-> "free", dockPosition |-> 1]

\* no 'station' key, a named bike nested
ObsNoStation ==
    [state |-> "ok", nbBike |-> 1, nbEbike |-> 1, nbFreeDock |-> 0,
     bikes |-> <<BikeNamed>>]

\* the station code is the empty string
ObsEmptyCode ==
    [station |-> [code |-> "", name |-> "Blank"],
     state |-> "ok", nbBike |-> 1, nbEbike |-> 1, nbFreeDock |-> 0,
     bikes |-> <<BikeNamed>>]

\* a station code and nothing else: no 'bikes' key, no 'gps', no counts
ObsNoBikes == [station |-> [code |-> "16109"]]

\* "station": null
ObsStationNull ==
    [station |-> JNullObject,
     state |-> "ok", nbBike |-> 0, nbEbike |-> 0, nbFreeDock |-> 0,
     bikes |-> <<>>]

\* a station code and "gps": null
ObsGpsNull ==
    [station |-> [code |-> "16110", name |-> "NoGps", gps |-> JNullObject],
     state |-> "ok", nbBike |-> 0, nbEbike |-> 0, nbFreeDock |-> 0,
     bikes |-> <<>>]

\* a station code and "bikes": null
ObsBikesNull ==
    [station |-> [code |-> "16111", name |-> "NoList"],
     state |-> "ok", nbBike |-> 0, nbEbike |-> 0, nbFreeDock |-> 0,
     bikes |-> JNullArray]

\* a station code and "bikes": [null]
ObsBikeNull ==
    [station |-> [code |-> "16112", name |-> "NullBike"],
     state |-> "ok", nbBike |-> 1, nbEbike |-> 0, nbFreeDock |-> 0,
     bikes |-> <<JNullObject>>]

\* a station code, a bike entry without the key 'bikeName' and a named one
ObsBikeNoNameKey ==
    [station |-> [code |-> "16113", name |-> "Keyless"],
     state |-> "ok", nbBike |-> 2, nbEbike |-> 0, nbFreeDock |-> 0,
     bikes |-> <<[bikeStatus |-> "free"], BikeNamed>>]

ObsShapes ==
    { Obs16107, Obs16108, ObsNoCode, ObsNoStation, ObsEmptyCode, ObsNoBikes,
      ObsStationNull, ObsGpsNull, ObsBikesNull, ObsBikeNull, ObsBikeNoNameKey,
      Obs16107Later, JNullObject }

ListsUpTo(S, n) == UNION {[1..k -> S] : k \in 0..n}

ExtractInputs ==
    {JsonList(data) : data \in ListsUpTo(ObsShapes, MaxObs)}
        \cup {InvalidJson, JsonObject}

\* the import has read the only file of the directory and stands at the call
\* of process_file_content
InitExtract ==
    /\ content \in ExtractInputs
    /\ folder = <<File(NameT1a, content)>>
    /\ progress_file = ProgressFile("missing", <<>>)
    /\ db \in PriorStores
    /\ seq = Cardinality(db.snapshot)
    /\ conn = Connection(FALSE, db)
    /\ pc = "snapshot"
    /\ progress = [done |-> <<>>]
    /\ done_files = {}
    /\ remaining_files = <<>>
    /\ filename = NameT1a
    /\ timestamp = TimestampOf[NameT1a]
    /\ snapshot_id = 0
    /\ buffers = EmptyBuffers
    /\ loaded_by = "rebuild"
    /\ errors = ZeroErrors
    /\ faults = 0
    /\ history = <<>>
    /\ tx_files = {}
    /\ written = {}
    /\ raised_batch = {}
    /\ committed = {}
    /\ db_faulted = {}
    /\ errors_before = ZeroErrors
    /\ visited = <<NameT1a>>
    /\ failed_saved = {}
    /\ save_faults = 0
    /\ ApiIdle

\* process_file_content from the snapshot statement to conn.commit, no
\* statement raising
NextExtract ==
    \/ InsertSnapshot
    \/ Decode
    \/ InsertStation
    \/ InsertVelo
    \/ InsertEtatStation
    \/ InsertLocalisationVelo
    \/ Commit

SpecExtract == InitExtract /\ [][NextExtract]_vars

\* ------------------------------------------------------------------------
\* The timestamp parser on its own: one call on each of a set of filenames
\* ------------------------------------------------------------------------
Prefixes == {<<>>, <<"v">>}

DateTokens ==
    { Day0101,
      <<"2", "0", "2", "4", "0", "2", "2", "9">>,
      <<"2", "0", "2", "3", "0", "2", "2", "9">>,
      <<"2", "0", "2", "4", "1", "3", "0", "1">>,
      <<"0", "0", "0", "0", "0", "1", "0", "1">>,
      <<"2", "0", "2", "4", "0", "1", "1">>,
      <<"2", "0", "2", "4", "1", "1", "1">>,
      <<"2", "0", "2", "4", "0", "1", " ", "1">>,
      <<"2", "0", "2", "4", "0", "1", "0", "a">>,
      <<"2", "0", "2", "4", "0", "1", "0", "1", "1">> }

TimeTokens ==
    { T0800,
      <<"2", "3", "5", "9", "5", "9">>,
      <<"2", "4", "0", "0", "0", "0">>,
      <<"0", "8", "6", "0", "0", "0">>,
      <<"0", "8", "0", "0", "6", "0">>,
      <<"0", "8", "0", "0", "0">>,
      <<"2", "3", "5", "9">>,
      <<"0", "8", " ", "0", "0", "0">>,
      <<"0", "8", "0", "0", "0", "a">>,
      <<"0", "8", "0", "0", "0", "0", "0">> }

Suffixes == {<<>>, ExtJson, Us \o <<"a">> \o ExtJson, Us \o <<"a">> \o Us \o <<"b">> \o ExtGz}

\* the filenames the parser is called on
ParserInputs ==
    {p \o Us \o d \o Us \o t \o s :
        <<p, d, t, s>> \in Prefixes \X DateTokens \X TimeTokens \X Suffixes}
    \cup {<<>>, ExtJson, <<"r", "e", "a", "d", "m", "e">> \o ExtJson,
          <<"v">> \o Us \o Day0101 \o ExtJson,
          <<"v">> \o Us \o Us \o Day0101 \o Us \o T0800}

InitParser ==
    /\ folder = <<>>
    /\ progress_file = ProgressFile("missing", <<>>)
    /\ db = EmptyTables
    /\ seq = 0
    /\ conn = Connection(FALSE, EmptyTables)
    /\ pc = "parser_call"
    /\ progress = [done |-> <<>>]
    /\ done_files = {}
    /\ remaining_files = <<>>
    /\ filename \in ParserInputs
    /\ timestamp = None
    /\ content = Unreadable
    /\ snapshot_id = 0
    /\ buffers = EmptyBuffers
    /\ loaded_by = "none"
    /\ errors = ZeroErrors
    /\ faults = 0
    /\ history = <<>>
    /\ tx_files = {}
    /\ written = {}
    /\ raised_batch = {}
    /\ committed = {}
    /\ db_faulted = {}
    /\ errors_before = ZeroErrors
    /\ visited = <<>>
    /\ failed_saved = {}
    /\ save_faults = 0
    /\ ApiIdle

\* timestamp = parse_timestamp_from_filename(filename)
ParseFilename ==
    /\ pc = "parser_call"
    /\ timestamp' = parse_timestamp_from_filename(filename)
    /\ pc' = "parser_returned"
    /\ UNCHANGED <<folder, progress_file, store_vars, progress, done_files,
                   remaining_files, filename, content, snapshot_id, buffers,
                   errors, loaded_by, ghost_vars>>
    /\ UNCHANGED api_vars

SpecParser == InitParser /\ [][ParseFilename]_vars

\* ------------------------------------------------------------------------
\* The filename shapes the properties of the parser speak of, read off the
\* name at fixed positions
\* ------------------------------------------------------------------------
AllDigits(s) == \A i \in 1..Len(s) : IsDigit(s[i])

\* the number written by the two digits of s at positions i, i + 1
TwoDigits(s, i) == DigitVal(s[i]) * 10 + DigitVal(s[i + 1])

YearOf(d) == TwoDigits(d, 1) * 100 + TwoDigits(d, 3)

\* d is YYYYMMDD and names a day of the calendar
IsDateToken(d) ==
    /\ Len(d) = 8
    /\ AllDigits(d)
    /\ ValidDateTime(YearOf(d), TwoDigits(d, 5), TwoDigits(d, 7), 0, 0, 0)

\* t is HHMMSS and names a time of the day
IsTimeToken(t) ==
    /\ Len(t) = 6
    /\ AllDigits(t)
    /\ ValidDateTime(1, 1, 1, TwoDigits(t, 1), TwoDigits(t, 3), TwoDigits(t, 5))

\* the date-time a name prefix_YYYYMMDD_HHMMSS... encodes
Embedded(fname) ==
    LET d == Split(fname)[2]
        t == Split(fname)[3]
    IN <<YearOf(d), TwoDigits(d, 5), TwoDigits(d, 7),
         TwoDigits(t, 1), TwoDigits(t, 3), TwoDigits(t, 5)>>

\* prefix_YYYYMMDD_HHMMSS_rest: the time token is HHMMSS and nothing else
DelimitedShape(fname) ==
    LET toks == Split(fname)
    IN /\ Len(toks) >= 3
       /\ IsDateToken(toks[2])
       /\ IsTimeToken(toks[3])

\* prefix_YYYYMMDD_HHMMSS<rest>.ext: as above, or the extension follows
\* HHMMSS directly
ExpectedShape(fname) ==
    LET toks == Split(fname)
    IN /\ Len(toks) >= 3
       /\ IsDateToken(toks[2])
       /\ Len(toks[3]) >= 6
       /\ IsTimeToken(SubSeq(toks[3], 1, 6))
       /\ Len(toks[3]) > 6 => toks[3][7] = "."

\* C2: for every filename of the expected shape, the extension directly
\* after HHMMSS included, the parser returns the date-time the name encodes.
C2_RecoversEmbeddedTimestamp ==
    (pc = "parser_returned" /\ ExpectedShape(filename))
        => timestamp = Embedded(filename)

Rejected(fname) ==
    LET toks == Split(fname)
    IN \/ Len(toks) < 3
       \/ /\ Len(toks) >= 3
          /\ LET d == toks[2]
                 t == toks[3]
             IN \/ \E i \in 1..Len(d) : d[i] \notin DigitSet \cup {" "}
                \/ \E i \in 1..Len(t) : t[i] \notin DigitSet \cup {" "}
                \/ Len(d) > 8
                \/ Len(t) > 6
                \/ (Len(d) = 8 /\ AllDigits(d) /\ ~IsDateToken(d))
                \/ (Len(t) = 6 /\ AllDigits(t) /\ ~IsTimeToken(t))

MaxRequests == 2

\* the key the service is configured with, and another one
Secret == "s3cret"
WrongKey == "guess"

PathStations == "/api/v1/dimensions/stations"
PathStation == "/api/v1/dimensions/stations/{code}"
PathVelos == "/api/v1/dimensions/velos"
PathVelo == "/api/v1/dimensions/velos/{velo_name}"
PathLocation == "/api/v1/facts/localisations/{loc_id}"

\* a row of station as the API writes it (StationBase)
ApiStation(code, name) ==
    [station_code |-> code, name |-> name, latitude |-> "48.8",
     longitude |-> "2.3", type |-> "STANDARD"]

\* the store the API is started on: two stations, two bikes, two locations
ApiStore ==
    [snapshot |-> {[snapshot_id |-> 1, timestamp_capture |-> TimestampOf[NameT1a]]},
     station |-> {ApiStation("16107", "Benjamin"), ApiStation("16108", "Other")},
     velo |-> {[velo_name |-> "BIKE1", bikeelectric |-> "true"],
               [velo_name |-> "BIKE2", bikeelectric |-> "false"]},
     etat_station |-> {},
     localisation_velo |->
         {[loc_id |-> 1, snapshot_id |-> 1, velo_name |-> "BIKE1",
           station_code |-> "16107", bikestatus |-> "free"],
          [loc_id |-> 2, snapshot_id |-> 1, velo_name |-> "BIKE2",
           station_code |-> "16108", bikestatus |-> "free"]}]

\* An HTTP request: key is the X-API-Key header ({} when the header is
\* missing, {k} when it carries k), arg the path parameter, confirm the query
\* parameter confirm (False when absent), body the JSON body
Request(method, path, key, arg, confirm, body) ==
    [method |-> method, path |-> path, key |-> key, arg |-> arg,
     confirm |-> confirm, body |-> body]

Keys == {{}, {Secret}, {WrongKey}}

NoBody == [station_code |-> "", name |-> ""]

\* the requests sent to the endpoints that write
Requests ==
    {Request("POST", PathStations, k, "", FALSE, ApiStation(c, "Renamed")) :
         k \in Keys, c \in {"16107"}}
    \cup {Request("POST", PathVelos, k, "", FALSE,
                  [velo_name |-> "BIKE9", bikeelectric |-> "true"]) : k \in Keys}
    \cup {Request("PUT", PathStation, k, c, FALSE, ApiStation(c, "Renamed")) :
              k \in Keys, c \in {"16107", "99999"}}
    \cup {Request("PUT", PathVelo, k, v, FALSE,
                  [velo_name |-> v, bikeelectric |-> "false"]) :
              k \in Keys, v \in {"BIKE1", "BIKE9"}}
    \cup {Request("DELETE", PathStation, k, c, confirm, NoBody) :
              k \in Keys, c \in {"16107", "99999"}, confirm \in BOOLEAN}
    \cup {Request("DELETE", PathVelo, k, v, confirm, NoBody) :
              k \in Keys, v \in {"BIKE1", "BIKE9"}, confirm \in BOOLEAN}
    \cup {Request("DELETE", PathLocation, k, id, FALSE, NoBody) :
              k \in Keys, id \in {1, 9}}

\* what a handler leaves: the status of the response and the committed tables
Response(status, tables) == [status |-> status, tables |-> tables]

\* variant: without a configured secret every key is let through
api_key_auth_open_when_unset(secret, key) ==
    IF key = {} THEN 422
    ELSE IF secret # {} /\ key # secret THEN 401
    ELSE 200

\* api_key_auth: 422 when the required header is missing, 401 when
\* API_KEY_SECRET is None or differs from the key, else the request passes
api_key_auth(secret, key) ==
    IF key = {} THEN 422
    ELSE IF secret = {} \/ key # secret THEN 401
    ELSE 200

\* create_station: INSERT ... ON CONFLICT (station_code) DO UPDATE; commit
create_station(req, tables, raises) ==
    IF raises THEN Response(500, tables)
    ELSE Response(201,
             [tables EXCEPT !.station =
                  {r \in @ : r.station_code # req.body.station_code}
                      \cup {req.body}])

\* delete_station, the handler registered first: DELETE, 404 when no row
\* was deleted, commit
delete_station(req, tables, raises) ==
    IF raises THEN Response(500, tables)
    ELSE IF \A r \in tables.station : r.station_code # req.arg
         THEN Response(404, tables)
         ELSE Response(204,
                  [tables EXCEPT !.station =
                       {r \in @ : r.station_code # req.arg}])

\* create_velo: INSERT ... ON CONFLICT (velo_name) DO NOTHING; commit
create_velo(req, tables, raises) ==
    IF raises THEN Response(500, tables)
    ELSE Response(201,
             [tables EXCEPT !.velo =
                  InsertOnConflictDoNothing(@, <<req.body>>, VeloUnique)])

\* update_station: 404 when the code has no row, else UPDATE and commit
update_station(req, tables, raises) ==
    IF raises THEN Response(500, tables)
    ELSE IF \A r \in tables.station : r.station_code # req.arg
         THEN Response(404, tables)
         ELSE Response(200,
                  [tables EXCEPT !.station =
                       {IF r.station_code = req.arg
                        THEN [r EXCEPT !.name = req.body.name,
                                       !.latitude = req.body.latitude,
                                       !.longitude = req.body.longitude,
                                       !.type = req.body.type]
                        ELSE r : r \in @}])

\* update_velo: UPDATE ... RETURNING, 404 when no row came back, else commit
update_velo(req, tables, raises) ==
    IF raises THEN Response(500, tables)
    ELSE IF \A r \in tables.velo : r.velo_name # req.arg
         THEN Response(404, tables)
         ELSE Response(200,
                  [tables EXCEPT !.velo =
                       {IF r.velo_name = req.arg
                        THEN [r EXCEPT !.bikeelectric = req.body.bikeelectric]
                        ELSE r : r \in @}])

\* delete_station, the handler registered second: 400 without confirm=true,
\* then as the first
delete_station_confirm(req, tables, raises) ==
    IF ~req.confirm THEN Response(400, tables)
    ELSE delete_station(req, tables, raises)

\* delete_velo: 400 without confirm=true, DELETE, 404 when no row was
\* deleted, commit
delete_velo(req, tables, raises) ==
    IF ~req.confirm THEN Response(400, tables)
    ELSE IF raises THEN Response(500, tables)
    ELSE IF \A r \in tables.velo : r.velo_name # req.arg
         THEN Response(404, tables)
         ELSE Response(204,
                  [tables EXCEPT !.velo = {r \in @ : r.velo_name # req.arg}])

\* delete_location: DELETE by loc_id, 404 when no row was deleted, commit
delete_location(req, tables, raises) ==
    IF raises THEN Response(500, tables)
    ELSE IF \A r \in tables.localisation_velo : r.loc_id # req.arg
         THEN Response(404, tables)
         ELSE Response(204,
                  [tables EXCEPT !.localisation_velo =
                       {r \in @ : r.loc_id # req.arg}])

\* the routes that write, in the order the decorators register them
Routes ==
    << [method |-> "POST", path |-> PathStations, endpoint |-> "create_station"],
       [method |-> "DELETE", path |-> PathStation, endpoint |-> "delete_station"],
       [method |-> "POST", path |-> PathVelos, endpoint |-> "create_velo"],
       [method |-> "PUT", path |-> PathStation, endpoint |-> "update_station"],
       [method |-> "PUT", path |-> PathVelo, endpoint |-> "update_velo"],
       [method |-> "DELETE", path |-> PathStation,
        endpoint |-> "delete_station_confirm"],
       [method |-> "DELETE", path |-> PathVelo, endpoint |-> "delete_velo"],
       [method |-> "DELETE", path |-> PathLocation,
        endpoint |-> "delete_location"] >>

\* the router takes the first route, in registration order, that matches the
\* method and the path
Matching(req) ==
    {i \in 1..Len(Routes) :
         Routes[i].method = req.method /\ Routes[i].path = req.path}

RouteOf(req) ==
    Routes[CHOOSE i \in Matching(req) : \A j \in Matching(req) : i <= j]

\* the endpoint function called
Endpoint(name, req, tables, raises) ==
    CASE name = "create_station" -> create_station(req, tables, raises)
      [] name = "delete_station" -> delete_station(req, tables, raises)
      [] name = "create_velo" -> create_velo(req, tables, raises)
      [] name = "update_station" -> update_station(req, tables, raises)
      [] name = "update_velo" -> update_velo(req, tables, raises)
      [] name = "delete_station_confirm" ->
             delete_station_confirm(req, tables, raises)
      [] name = "delete_velo" -> delete_velo(req, tables, raises)
      [] name = "delete_location" -> delete_location(req, tables, raises)

\* the dependency api_key_auth of the route, then the endpoint; endpoint
\* names the function that was called ("": none)
Serve(secret, req, tables, raises) ==
    IF Matching(req) = {}
    THEN [status |-> 404, tables |-> tables, endpoint |-> ""]
    ELSE IF api_key_auth(secret, req.key) # 200
         THEN [status |-> api_key_auth(secret, req.key), tables |-> tables,
               endpoint |-> ""]
         ELSE LET name == RouteOf(req).endpoint
                  r == Endpoint(name, req, tables, raises)
              IN [status |-> r.status, tables |-> r.tables, endpoint |-> name]

InitApi ==
    /\ folder = <<>>
    /\ progress_file = ProgressFile("missing", <<>>)
    /\ db = ApiStore
    /\ seq = 1
    /\ conn = Connection(FALSE, ApiStore)
    /\ pc = "idle"
    /\ IdleLocals
    /\ errors = ZeroErrors
    /\ faults = 0
    /\ history = <<>>
    /\ tx_files = {}
    /\ written = {}
    /\ raised_batch = {}
    /\ committed = {}
    /\ db_faulted = {}
    /\ errors_before = ZeroErrors
    /\ visited = <<>>
    /\ failed_saved = {}
    /\ save_faults = 0
    /\ API_KEY_SECRET \in {{}, {Secret}}
    /\ request = NoRequest
    /\ responses = <<>>

\* a client sends a request
Receive ==
    /\ request = NoRequest
    /\ Len(responses) < MaxRequests
    /\ request' \in Requests
    /\ UNCHANGED <<folder, progress_file, store_vars, pc, local_vars,
                   ghost_vars, API_KEY_SECRET, responses>>

\* the application answers it; a statement or the commit may raise
Respond ==
    /\ request # NoRequest
    /\ \E raises \in BOOLEAN :
           LET r == Serve(API_KEY_SECRET, request, db, raises)
           IN /\ db' = r.tables
              /\ responses' = Append(responses,
                                     [request |-> request,
                                      status |-> r.status,
                                      endpoint |-> r.endpoint,
                                      wrote |-> r.tables # db])
    /\ request' = NoRequest
    /\ UNCHANGED <<folder, progress_file, seq, conn, pc, local_vars,
                   ghost_vars, API_KEY_SECRET>>

NextApi ==
    \/ Receive
    \/ Respond

SpecApi == InitApi /\ [][NextApi]_vars

\* ------------------------------------------------------------------------
\* Properties of the import
\* ------------------------------------------------------------------------
\* the progress record a reader of the progress file gets
DiskDone ==
    IF progress_file.state = "valid" THEN Range(progress_file.done) ELSE {}

\* a file is being written: between insert_snapshot_and_get_id and commit
Writing ==
    pc \in {"snapshot", "decode", "insert_station", "insert_velo",
            "insert_etat", "insert_loc", "commit"}

\* no other candidate of the directory carries the timestamp of fname
UniqueTimestamp(fname) ==
    \A n \in Range(CandidateFiles(folder)) :
        n # fname =>
            TimestampOf[n] # TimestampOf[fname]

\* the first run has come to its end, nothing else has happened
FirstRunCompleted ==
    /\ pc = "idle"
    /\ Len(history) = 1
    /\ history[1].how = "completed"

T20240101_080000 == <<2024, 1, 1, 8, 0, 0>>

\* C1: the directory that holds only velib_20240101_080000.json (station
\* 16107 with the electric bike BIKE1), imported into an empty store with no
\* progress record, ends with one snapshot row 2024-01-01T08:00:00, the
\* station row 16107, the velo row BIKE1, one etat_station and one
\* localisation_velo row of that snapshot, and no error counted.
C1_ScenarioFileImported ==
    (/\ FirstRunCompleted
     /\ faults = 0
     /\ folder = <<File(NameScenario, JsonList(<<Obs16107>>))>>)
    => /\ \E sid \in 1..seq :
            /\ db.snapshot = {[snapshot_id |-> sid,
                               timestamp_capture |-> T20240101_080000]}
            /\ db.etat_station = {EtatStationRow(sid, Obs16107)}
            /\ db.localisation_velo =
                   {LocalisationVeloRow(sid, "16107", Obs16107.bikes[1])}
       /\ db.station = {StationRow(Obs16107.station)}
       /\ db.velo = {[velo_name |-> "BIKE1", bikeelectric |-> "true"]}
       /\ errors = ZeroErrors

\* C4: of two runs in succession that both come to their end, the second
\* leaves the tables as the first left them; and no file of the done-set is
\* ever written.
C4_SecondRunChangesNothing ==
    /\ \A k \in 1..(Len(history) - 1) :
           (history[k].how = "completed" /\ history[k + 1].how = "completed")
               => history[k + 1].tables = history[k].tables
    /\ Writing => filename \notin done_files

C4_Witness ==
    /\ Len(history) = 2
    /\ history[1].how = "completed"
    /\ history[2].how = "completed"
    /\ history[1].tables.localisation_velo # {}
    /\ Cardinality(DiskDone) = 2

\* C5: a file one of whose bulk inserts raised has none of its statements
\* committed, neither by itself nor by the commit of a later file: it is not
\* among the files written in this run, and when no other file carries its
\* timestamp and it never committed itself, the store holds no snapshot row
\* of that timestamp.
C5_FailedBatchNeverCommitted ==
    \A f \in raised_batch :
        /\ f \notin written
        /\ (f \notin committed /\ UniqueTimestamp(f))
               => TimestampOf[f] \notin ExistingSnapshots(db)

C5_Witness ==
    /\ raised_batch # {}
    /\ written # {}
    /\ pc = "idle"
    /\ \E f \in raised_batch : f \notin committed /\ UniqueTimestamp(f)

\* C6: when the driver moves on from a file, whatever its outcome, the
\* filename is in the done list and in the progress file on disk.
C6_EveryOutcomeMarkedDone ==
    (pc = "loop" /\ filename # <<>>)
        => /\ filename \in Range(progress.done)
           /\ filename \in DiskDone

\* the rows a file holds are in the tables: its snapshot row and, under the
\* id of that row, one row for each key of its four buffers
FactsPresent(f, tables) ==
    LET ts == TimestampOf[f.name]
    IN /\ ts \in ExistingSnapshots(tables)
       /\ LET buf == Extract(f.content.data,
                             ReturningSnapshotId(tables, ts)).buffers
              Has(table, rows, cols) ==
                  \A i \in 1..Len(rows) :
                      \E r \in table : KeyOf(r, cols) = KeyOf(rows[i], cols)
          IN /\ Has(tables.station, buf.station_buffer, StationUnique)
             /\ Has(tables.velo, buf.velo_buffer, VeloUnique)
             /\ Has(tables.etat_station, buf.etat_station_buffer,
                    EtatStationUnique)
             /\ Has(tables.localisation_velo, buf.localisation_velo_buffer,
                    LocalisationVeloUnique)

\* the files a run without failure imports
Importable ==
    {f \in Range(folder) :
        /\ f.name \in Range(CandidateFiles(folder))
        /\ TimestampOf[f.name] # None
        /\ f.content.kind = "list"
        /\ f.name \notin db_faulted}

\* C7: a run that is terminated and followed by a run that comes to its end
\* leaves the rows of every file in the store, as one uninterrupted run does.
C7_ResumedRunLosesNothing ==
    (/\ pc = "idle"
     /\ history # <<>>
     /\ history[Len(history)].how = "completed")
    => \A f \in Importable : FactsPresent(f, db)

\* C8: at most one file whose transaction has been committed is absent from
\* the progress record on disk.
C8_AtMostOneCommittedFileUnrecorded ==
    Cardinality(committed \ DiskDone) <= 1

\* C9: the record rebuilt from the store holds exactly the candidate files
\* whose name yields a timestamp that is in the snapshot table.
C9_RebuildExact ==
    (pc = "loaded" /\ loaded_by = "rebuild")
    => /\ Range(progress.done) =
              {n \in Range(ListDir(folder)) :
                  /\ EndsWith(n, ExtJson) \/ EndsWith(n, ExtGz)
                  /\ TimestampOf[n] # None
                  /\ \E r \in db.snapshot :
                         r.timestamp_capture = TimestampOf[n]}
       /\ Cardinality(Range(progress.done)) = Len(progress.done)

C9_Witness ==
    /\ pc = "loaded"
    /\ loaded_by = "rebuild"
    /\ progress.done # <<>>
    /\ \E n \in Range(CandidateFiles(folder)) :
           TimestampOf[n] = None

\* C10: a file with a parsable name whose content is a JSON object counts
\* one invalid_format, is appended to the done list, and no row is written
\* for it, whatever is processed after it: it is not among the files written
\* and the store holds no snapshot row of its timestamp.
C10_NonListWritesNothing ==
    /\ (pc = "append" /\ content.kind = "object" /\ filename \notin db_faulted)
           => errors.invalid_format >= 1
    /\ \A f \in Range(folder) :
           (/\ f.content.kind = "object"
            /\ f.name \in Range(CandidateFiles(folder))
            /\ UniqueTimestamp(f.name))
           => /\ f.name \notin written
              /\ TimestampOf[f.name] \notin ExistingSnapshots(db)

\* the file filename has been through process_file_content past the snapshot
\* row: the call of insert_snapshot_and_get_id returned an id
Decoded(kinds) ==
    /\ pc = "append"
    /\ snapshot_id # 0
    /\ content.kind \in kinds

\* C11: content that is not valid JSON and content that is valid JSON but not a
\* list are counted alike: invalid_format goes up by one and no other counter
\* changes, and the file is not among the files written.
C11_DecodeErrorsSameClass ==
    Decoded({"invalid_json", "object"})
        => /\ errors = Count(errors_before, "invalid_format")
           /\ filename \notin written

\* the loop is handling, or has just handled, a file whose name gave no
\* timestamp
HandlingUnparsable ==
    /\ pc \in {"unparsable", "save_open", "save_dump", "loop"}
    /\ filename # <<>>
    /\ timestamp = None

\* C12: a remaining file whose name yields no timestamp counts exactly one
\* generic_error, is appended to the done list once and is on disk when the
\* loop moves on; it never reaches the read, the decoding or a database
\* statement, and while it is handled the store, the connection and content
\* stay as they were.
C12_UnparsableCountedDoneUntouched ==
    /\ [](/\ (pc \in {"read", "append"} \/ Writing) => timestamp # None
          /\ (HandlingUnparsable /\ pc # "unparsable")
               => /\ errors = Count(errors_before, "generic_error")
                  /\ Cardinality({i \in 1..Len(progress.done) :
                                     progress.done[i] = filename}) = 1
          /\ (HandlingUnparsable /\ pc = "loop") => filename \in DiskDone)
    /\ [][(HandlingUnparsable /\ pc' # "idle")
               => UNCHANGED <<db, seq, conn, content>>]_vars

C12_Witness ==
    /\ HandlingUnparsable
    /\ pc = "loop"
    /\ filename \in DiskDone
    /\ errors.generic_error = 1
    /\ db.snapshot # {}

\* at most one row of the table for each value of the key
KeyUnique(table, cols) ==
    \A r1 \in table : \A r2 \in table :
        KeyOf(r1, cols) = KeyOf(r2, cols) => r1 = r2

\* the rows of the buffer are in the table as the buffer holds them
RowsStored(table, rows) == \A i \in 1..Len(rows) : rows[i] \in table

\* C13: the station table holds one row for each station code and the velo
\* table one row for each bike name, and a row, once committed, is never
\* changed or removed, so it keeps the values of the first committed
\* observation; a file that commits under a snapshot of its own has its
\* etat_station and localisation_velo rows in the store as it observed them.
C13_FirstWriterWins ==
    /\ [](/\ KeyUnique(db.station, StationUnique)
          /\ KeyUnique(db.velo, VeloUnique)
          /\ (Decoded({"list"}) /\ filename \in committed
                   /\ UniqueTimestamp(filename))
               => /\ RowsStored(db.etat_station, buffers.etat_station_buffer)
                  /\ RowsStored(db.localisation_velo,
                                buffers.localisation_velo_buffer))
    /\ [][db.station \subseteq db'.station /\ db.velo \subseteq db'.velo]_vars

\* the second file has observed station 16107 and bike BIKE1 with other
\* values and is committed: two states of the station, the first name
C13_Witness ==
    /\ Decoded({"list"})
    /\ filename = NameT2
    /\ filename \in committed
    /\ db.station = {StationRow(Obs16107.station)}
    /\ db.velo = {VeloRow(Obs16107.bikes[1])}
    /\ Cardinality(db.etat_station) = 2
    /\ Cardinality(db.localisation_velo) = 2

\* at most one row of the snapshot table for each timestamp_capture
SnapshotUnique(tables) ==
    \A r1 \in tables.snapshot : \A r2 \in tables.snapshot :
        r1.timestamp_capture = r2.timestamp_capture => r1 = r2

\* C14: the snapshot table, as committed and as the connection sees it,
\* holds at most one row for each timestamp_capture, and when
\* insert_snapshot_and_get_id has returned for a timestamp that has a
\* committed row, the id it returned is the id of that row.
C14_SnapshotUniqueUpsertReturnsExisting ==
    /\ SnapshotUnique(db)
    /\ SnapshotUnique(conn.view)
    /\ pc = "decode"
           => \A r \in db.snapshot :
                  r.timestamp_capture = timestamp => snapshot_id = r.snapshot_id

\* the call was made for a timestamp that was in the store already: the id
\* returned is an older one than the value just drawn from the sequence
C14_Witness ==
    /\ pc = "decode"
    /\ timestamp \in ExistingSnapshots(db)
    /\ snapshot_id < seq
    /\ Cardinality(db.snapshot) = 2

\* C15: whenever no import is running, after a run that came to its end or
\* one that was terminated at any point of save_progress, the progress file
\* is absent (never written yet) or holds a whole record; it is never empty
\* or cut short.
C15_SaveNeverCorruptsRecord ==
    pc = "idle" => progress_file.state \in {"missing", "valid"}

\* C16: a call of save_progress that raises ends the run at once, the
\* exception leaving import_data_from_folder, and no error counter goes up
\* for it.
C16_SaveFailureIsFatal ==
    [][save_faults' > save_faults
          => /\ pc' = "idle"
             /\ \A c \in DOMAIN errors : errors'[c] <= errors[c]]_vars

\* C17: a run that is not terminated from outside comes to its end, whatever
\* the outcome of each file; at every point of the loop the files taken so
\* far followed by the files still to take are the remaining files of the
\* run, each once, and the run ends only when none is left to take.
C17_EveryRemainingFileAttemptedOnce ==
    /\ [](pc \notin {"idle", "loaded"}
              => visited \o remaining_files
                     = RemainingFiles(CandidateFiles(folder), done_files))
    /\ [][(pc # "idle" /\ pc' = "idle"
               /\ history'[Len(history')].how = "completed")
              => remaining_files = <<>>]_vars
    /\ (pc # "idle") ~> (pc = "idle")

\* a run has come to its end after two files, the first of which met a
\* database error
C17_Witness ==
    /\ pc = "idle"
    /\ history # <<>>
    /\ history[Len(history)].how = "completed"
    /\ Len(visited) = 2
    /\ visited[1] \in db_faulted
    /\ visited[2] \in committed

\* C18: a file that was counted as an error and saved as done in the progress
\* file is not taken up again by a later run: the loop never stands at the
\* handling of its name, at its read or at a statement for it.
C18_FailedFileNotRetried ==
    (pc \in {"unparsable", "read"} \/ Writing) => filename \notin failed_saved

\* C19: load_progress hands over the record of the progress file when the
\* file holds a whole JSON text, and the record rebuilt from the store when
\* the file is missing, empty or does not parse.
C19_LoadFallsBackToRebuild ==
    pc = "loaded"
        => /\ progress_file.state = "valid"
                  => progress = [done |-> progress_file.done]
           /\ progress_file.state \in {"missing", "empty", "partial"}
                  => progress = rebuild_progress_from_database(db, folder)

\* the file is empty and the record rebuilt from the store is not
C19_Witness ==
    /\ pc = "loaded"
    /\ progress_file.state = "empty"
    /\ progress.done # <<>>

\* the snapshot statement of the file filename has raised
SnapshotFailed ==
    /\ pc \in {"append", "save_open", "save_dump", "loop"}
    /\ filename # <<>>
    /\ errors.snapshot_error > errors_before.snapshot_error

\* C20: when the snapshot statement raises for a file, snapshot_error goes up
\* by one and no other counter changes, the transaction is rolled back (the
\* connection holds no uncommitted write), nothing is extracted and nothing
\* of the file is written, and the file is appended to the done list and is
\* on disk when the loop moves on.
C20_SnapshotErrorShortCircuits ==
    SnapshotFailed
        => /\ errors = Count(errors_before, "snapshot_error")
           /\ snapshot_id = 0
           /\ buffers = EmptyBuffers
           /\ ~conn.in_tx
           /\ conn.view = db
           /\ filename \notin written
           /\ pc # "append" => filename \in Range(progress.done)
           /\ pc = "loop" => filename \in DiskDone

\* the statement raised while the connection held the uncommitted snapshot
\* row of the file before, a JSON object
C20_Witness ==
    /\ SnapshotFailed
    /\ pc = "loop"
    /\ Len(visited) = 2
    /\ ContentOf(folder, visited[1]).kind = "object"
    /\ errors.invalid_format = 1

\* C21: the step in which a bulk insert of the file filename raises counts
\* one generic_error and nothing else, leaves every committed row as it was
\* and leaves the connection without uncommitted write; a file taken after it
\* in the run is processed as usual: once past its commit it is among the
\* files written and, under a snapshot of its own, its rows are stored.
C21_FailedBatchRollsBackItsFileOnly ==
    /\ [][raised_batch' \ raised_batch # {}
              => /\ errors' = Count(errors, "generic_error")
                 /\ errors = errors_before
                 /\ db' = db
                 /\ conn' = Connection(FALSE, db)]_vars
    /\ []((Decoded({"list"}) /\ filename \notin raised_batch)
              => /\ filename \in written
                 /\ UniqueTimestamp(filename)
                        => /\ RowsStored(db.etat_station,
                                         buffers.etat_station_buffer)
                           /\ RowsStored(db.localisation_velo,
                                         buffers.localisation_velo_buffer))

\* a bulk insert of the second file has raised after the first file was
\* committed
C21_Witness ==
    /\ pc = "append"
    /\ Len(visited) = 2
    /\ visited[1] \in written
    /\ filename \in raised_batch
    /\ db.localisation_velo # {}
    /\ errors = Count(ZeroErrors, "generic_error")

\* the observation carries a station code that is neither missing nor empty
Coded(o) ==
    /\ IsObject(o)
    /\ IsObject(Get(o, "station", EmptyDict))
    /\ ~Falsy(Get(Get(o, "station", EmptyDict), "code", JNull))

\* the bike entry carries a name that is neither missing nor empty
Named(bike) ==
    /\ IsObject(bike)
    /\ ~Falsy(Get(bike, "bikeName", JNull))

\* the file filename is a list and json.loads and the extraction loop are
\* behind it
Extraction == pc \notin {"snapshot", "decode"} /\ content.kind = "list"

\* C22: the buffers of a list file hold one station row and one etat_station
\* row, under the snapshot id of the file, for each observation with a
\* non-empty station code, in the order of the file and whether or not the
\* observation lists bikes; the other observations add no row, and no counter
\* moves.
C22_OneStationRowPerCodedObservation ==
    Extraction
        => LET coded == SelectSeq(content.data, Coded)
           IN /\ Len(buffers.station_buffer) = Len(coded)
              /\ Len(buffers.etat_station_buffer) = Len(coded)
              /\ \A i \in 1..Len(coded) :
                     /\ i \in DOMAIN buffers.station_buffer
                            => buffers.station_buffer[i].station_code
                                   = coded[i].station.code
                     /\ i \in DOMAIN buffers.etat_station_buffer
                            => /\ buffers.etat_station_buffer[i].station_code
                                      = coded[i].station.code
                               /\ buffers.etat_station_buffer[i].snapshot_id
                                      = snapshot_id
              /\ errors = errors_before

\* the named bike entries of an observation, with the code of its station
\* none when the observation carries no code
NamedBikesOf(o) ==
    IF ~Coded(o) \/ ~Iterable(Get(o, "bikes", <<>>)) THEN <<>>
    ELSE LET bikes == SelectSeq(Get(o, "bikes", <<>>), Named)
         IN [i \in 1..Len(bikes) |->
                [velo_name |-> bikes[i].bikeName,
                 station_code |-> o.station.code]]

RECURSIVE NamedBikes(_)
NamedBikes(data) ==
    IF data = <<>> THEN <<>>
    ELSE NamedBikesOf(Head(data)) \o NamedBikes(Tail(data))

\* C23: the buffers of a list file hold one velo row and one
\* localisation_velo row, under the snapshot id of the file and the code of
\* the station, for each named bike entry of an observation with a station
\* code, in the order of the file; bike entries without name and bikes of
\* observations without code add no row, and no counter moves.
C23_OneBikeRowPerNamedBike ==
    Extraction
        => LET named == NamedBikes(content.data)
           IN /\ Len(buffers.velo_buffer) = Len(named)
              /\ Len(buffers.localisation_velo_buffer) = Len(named)
              /\ \A i \in 1..Len(named) :
                     /\ i \in DOMAIN buffers.velo_buffer
                            => buffers.velo_buffer[i].velo_name
                                   = named[i].velo_name
                     /\ i \in DOMAIN buffers.localisation_velo_buffer
                            => buffers.localisation_velo_buffer[i]
                                   = [buffers.localisation_velo_buffer[i]
                                        EXCEPT !.snapshot_id = snapshot_id,
                                               !.velo_name = named[i].velo_name,
                                               !.station_code =
                                                   named[i].station_code]
              /\ errors = errors_before

\* the first row of the buffer carrying the key of its row i
FirstOfKey(rows, i, cols) ==
    rows[CHOOSE j \in 1..i :
             /\ KeyOf(rows[j], cols) = KeyOf(rows[i], cols)
             /\ \A k \in 1..(j - 1) :
                    KeyOf(rows[k], cols) # KeyOf(rows[i], cols)]

\* of the rows of the buffer that share a key, the statement has kept the
\* first, unless the committed table held a row of that key
FirstKept(committed_table, view_table, rows, cols) ==
    \A i \in 1..Len(rows) :
        \/ \E old \in committed_table : KeyOf(old, cols) = KeyOf(rows[i], cols)
        \/ FirstOfKey(rows, i, cols) \in view_table

\* C24: etat_station holds at most one row for each (snapshot_id,
\* station_code) and localisation_velo at most one for each (snapshot_id,
\* velo_name), committed or not; a committed row is in what the connection
\* sees and stays committed with its values, so a row written again for its
\* key (the file processed again, a second file of the same timestamp) is
\* dropped; of two observations of a file with the same key the first is the
\* one stored.
C24_FactKeysUniqueDuplicatesDropped ==
    /\ [](/\ KeyUnique(db.etat_station, EtatStationUnique)
          /\ KeyUnique(db.localisation_velo, LocalisationVeloUnique)
          /\ KeyUnique(conn.view.etat_station, EtatStationUnique)
          /\ KeyUnique(conn.view.localisation_velo, LocalisationVeloUnique)
          /\ db.etat_station \subseteq conn.view.etat_station
          /\ db.localisation_velo \subseteq conn.view.localisation_velo
          /\ pc \in {"insert_loc", "commit"}
                 => FirstKept(db.etat_station, conn.view.etat_station,
                              buffers.etat_station_buffer, EtatStationUnique)
          /\ pc = "commit"
                 => FirstKept(db.localisation_velo,
                              conn.view.localisation_velo,
                              buffers.localisation_velo_buffer,
                              LocalisationVeloUnique))
    /\ [][/\ db.etat_station \subseteq db'.etat_station
          /\ db.localisation_velo \subseteq db'.localisation_velo]_vars

\* the store held station 16107 and bike BIKE1 under the snapshot; a file of
\* the same timestamp that observes them with other values, and station
\* 16108, is committed: the old rows are as they were
C24_Witness ==
    /\ pc = "append"
    /\ filename \in committed
    /\ content.data = <<Obs16107Later, Obs16108>>
    /\ Cardinality(db.etat_station) = 2
    /\ EtatStationRow(snapshot_id, Obs16107) \in db.etat_station
    /\ LocalisationVeloRow(snapshot_id, "16107", Obs16107.bikes[1])
           \in db.localisation_velo

\* C25: in a run, a file of the done-set built at the start is not taken by
\* the loop: it is neither among the files visited nor among those that
\* remain, no statement of the run is made for it, it stands once in the done
\* list, and as long as no file was visited no counter has moved and the
\* connection holds no write.
C25_DoneFilesSkipped ==
    pc \notin {"idle", "loaded"}
        => /\ done_files \cap (Range(visited) \cup Range(remaining_files)) = {}
           /\ done_files \cap (tx_files \cup written \cup raised_batch) = {}
           /\ \A n \in done_files :
                  Cardinality({i \in 1..Len(progress.done) :
                                   progress.done[i] = n}) = 1
           /\ visited = <<>>
                  => /\ errors = ZeroErrors
                     /\ conn = Connection(FALSE, db)

\* a run that found a file of the directory in its done-set has passed it
\* over and processed the file after it
C25_Witness ==
    /\ pc = "append"
    /\ Len(folder) = 2
    /\ folder[1].name \in done_files
    /\ visited = <<folder[2].name>>
    /\ filename \in committed

\* the rows of the table stand under a snapshot of the tables
UnderSnapshot(table, tables) ==
    \A r \in table : \E sn \in tables.snapshot : sn.snapshot_id = r.snapshot_id

\* in the tables the rows of a list file are all there or all missing
WholeFiles(tables) ==
    /\ LET candidates == Range(CandidateFiles(folder))
       IN \A f \in Range(folder) :
              (/\ f.content.kind = "list"
               /\ TimestampOf[f.name] \in ExistingSnapshots(tables)
               /\ f.name \in candidates
               /\ \A n \in candidates :
                      n # f.name => TimestampOf[n] # TimestampOf[f.name])
              => FactsPresent(f, tables)
    /\ UnderSnapshot(tables.etat_station, tables)
    /\ UnderSnapshot(tables.localisation_velo, tables)

\* C26: what a reader of the store can see at any moment of an import is the
\* committed tables db.  In them the rows of a list file are all there or all
\* missing: when the snapshot row of a file with a timestamp of its own is
\* committed, so are its station, velo, etat_station and localisation_velo
\* rows, and no etat_station or localisation_velo row is committed without
\* the snapshot row it stands under.
C26_ReaderSeesWholeFiles == [](WholeFiles(db))

\* the import is in the middle of the statements of a second file, with
\* uncommitted rows on the connection, and the first file is committed
C26_Witness ==
    /\ pc = "insert_loc"
    /\ conn.in_tx
    /\ conn.view.etat_station # db.etat_station
    /\ db.etat_station # {}
    /\ Len(visited) = 2

\* the step adds a row to the table of the connection's view
Grows(table) == conn'.view[table] \ conn.view[table] # {}

\* the step at position at finds its batch empty or not, and passes to next:
\* an empty batch changes nothing on the connection
InsertStep(table, at, buffer, next) ==
    /\ Grows(table) => pc = at
    /\ pc = at
           => /\ pc' = next
              /\ buffers[buffer] = <<>> => conn' = conn
              /\ \A other \in DOMAIN conn.view \ {table} :
                     conn'.view[other] = conn.view[other]

\* C27: the statements of a file come in one order.  A row is added to the
\* snapshot table only by the first statement, to station, velo, etat_station
\* and localisation_velo only by the insert of that table, each insert is
\* followed by the next whether its batch was empty or not, and the
\* committed tables change only in the commit that follows the last insert,
\* where they take all the connection holds; at every moment the inserts
\* stand under the snapshot row of the file, and every etat_station and
\* localisation_velo row the connection sees has its station and its bike.
C27_StatementsInOrder ==
    /\ [](/\ pc \in {"decode", "insert_station", "insert_velo", "insert_etat",
                      "insert_loc", "commit"}
                 => \E sn \in conn.view.snapshot :
                        /\ sn.snapshot_id = snapshot_id
                        /\ sn.timestamp_capture = timestamp
          /\ \A r \in conn.view.etat_station :
                 \E st \in conn.view.station :
                     st.station_code = r.station_code
          /\ \A r \in conn.view.localisation_velo :
                 /\ \E st \in conn.view.station :
                        st.station_code = r.station_code
                 /\ \E v \in conn.view.velo : v.velo_name = r.velo_name)
    /\ [][/\ Grows("snapshot") => pc = "snapshot" /\ pc' = "decode"
          /\ InsertStep("station", "insert_station", "station_buffer",
                        "insert_velo")
          /\ InsertStep("velo", "insert_velo", "velo_buffer", "insert_etat")
          /\ InsertStep("etat_station", "insert_etat", "etat_station_buffer",
                        "insert_loc")
          /\ InsertStep("localisation_velo", "insert_loc",
                        "localisation_velo_buffer", "commit")
          /\ db' # db
                 => /\ pc = "commit"
                    /\ pc' = "append"
                    /\ db' = conn.view
                    /\ conn' = Connection(FALSE, db')]_vars

\* a file whose observations carry a station and no bike is committed: the
\* two bike batches were empty
C27_Witness ==
    /\ pc = "append"
    /\ filename \in committed
    /\ content.data = <<ObsNoBikes>>
    /\ buffers.velo_buffer = <<>>
    /\ buffers.station_buffer # <<>>
    /\ \E r \in db.etat_station : r.station_code = "16109"

\* C28: the statements of a file are ended by a commit or a rollback inside
\* process_file_content: when the driver appends the filename, saves the
\* done list, stands between two files or begins the next file, the
\* connection has no open transaction and sees the committed tables only.
C28_OneTransactionPerFile ==
    pc \in {"append", "save_open", "save_dump", "loop", "unparsable", "read",
            "snapshot"}
        => /\ conn = Connection(FALSE, db)
           /\ tx_files = {}

\* C29: whatever the progress file holds, load_progress returns a record
\* with a done list, and no run ends by an exception raised while the
\* done-set is built.
C29_LoadAlwaysGivesDoneList ==
    /\ pc = "loaded"
           => /\ IsObject(progress)
              /\ "done" \in DOMAIN progress
              /\ Iterable(progress.done)
    /\ \A i \in 1..Len(history) : history[i].how # "raised"

\* the three counters added up
Total(e) == e.invalid_format + e.snapshot_error + e.generic_error

\* C30: in a run, before the first file is taken the counters are zero; from
\* then on no counter is below its value at the start of the file last taken
\* and the three together are above it by one at most; they are as at the
\* start when the file was committed; and they add up to no more than the
\* number of files taken so far.
C30_CounterAccounting ==
    (pc \notin {"idle", "loaded"})
        => /\ visited = <<>> => errors = ZeroErrors
           /\ visited # <<>>
                  => /\ errors.invalid_format >= errors_before.invalid_format
                     /\ errors.snapshot_error >= errors_before.snapshot_error
                     /\ errors.generic_error >= errors_before.generic_error
                     /\ Total(errors) - Total(errors_before) \in {0, 1}
           /\ (/\ pc \in {"append", "save_open", "save_dump", "loop"}
               /\ visited # <<>>
               /\ timestamp # None
               /\ snapshot_id # 0
               /\ content.kind = "list"
               /\ filename \notin raised_batch)
                  => errors = errors_before
           /\ Total(errors) <= Len(visited)

\* the list q holds no name twice
NoDuplicate(q) == \A i \in 1..Len(q) : \A j \in 1..Len(q) : q[i] = q[j] => i = j

\* C31: while a run lasts, the done list in memory holds no name twice, the
\* names of the progress file on disk are among its names, and a step of the
\* run leaves the list as it is or adds one name at its end.
C31_DoneListOnlyGrows ==
    /\ [](pc # "idle"
             => /\ NoDuplicate(progress.done)
                /\ DiskDone \subseteq Range(progress.done))
    /\ [][(pc # "idle" /\ pc' # "idle")
              => \/ progress'.done = progress.done
                 \/ /\ Len(progress'.done) = Len(progress.done) + 1
                    /\ SubSeq(progress'.done, 1, Len(progress.done))
                           = progress.done]_vars

\* a run that loaded a done list from the progress file has added a second
\* name to it and saved it
C31_Witness ==
    /\ pc = "loop"
    /\ loaded_by = "file"
    /\ visited # <<>>
    /\ Len(progress.done) = 2
    /\ Len(progress_file.done) = 2
    /\ progress_file.state = "valid"

\* the name gives a timestamp that has a row in the snapshot table
HasSnapshotRow(n) ==
    /\ TimestampOf[n] # None
    /\ TimestampOf[n] \in ExistingSnapshots(db)

ValidKey(req) == API_KEY_SECRET # {} /\ req.key = API_KEY_SECRET

\* C33: a DELETE on /api/v1/dimensions/stations/{code} with a valid key and
\* without confirm=true was answered 400 and has changed nothing in the
\* store, and every DELETE on that path that has changed the store carried
\* confirm=true.
C33_StationDeleteNeedsConfirm ==
    \A i \in 1..Len(responses) :
        LET a == responses[i]
        IN (a.request.method = "DELETE" /\ a.request.path = PathStation)
               => /\ (ValidKey(a.request) /\ ~a.request.confirm)
                         => a.status = 400 /\ ~a.wrote
                  /\ a.wrote => a.request.confirm

\* C34: an endpoint that writes was called only for a request whose
\* X-API-Key header is there and equals API_KEY_SECRET, and no request
\* without it has changed the store; when API_KEY_SECRET is not configured,
\* no endpoint was called and every request carrying a key was answered 401.
C34_WritesNeedTheApiKey ==
    \A i \in 1..Len(responses) :
        LET a == responses[i]
        IN /\ (a.endpoint # "" \/ a.wrote)
                  => (a.request.key # {} /\ ValidKey(a.request))
           /\ API_KEY_SECRET = {}
                  => /\ a.endpoint = ""
                     /\ ~a.wrote
                     /\ a.request.key # {} => a.status = 401

\* with the secret configured, a request with the key has written, one with
\* another key was answered 401
C34_Witness ==
    /\ Len(responses) = 2
    /\ API_KEY_SECRET = {Secret}
    /\ responses[1].wrote
    /\ responses[1].request.key = {Secret}
    /\ responses[2].request.key = {WrongKey}
    /\ responses[2].status = 401

====
